---- MODULE Spec2Model ----
(***************************************************************************)
(* Model of danarchy-io/simplate: the FILE-directive segment parser        *)
(* (pkg/template/parser.go), the execution pipeline (Execute and           *)
(* ExecuteWithFiles) and the sink writers (DefaultFileWriter and           *)
(* MemoryFileWriter).                                                      *)
(*                                                                         *)
(* Byte strings are sequences of one-character strings.  Offsets are       *)
(* 0-based as in Go; Slice(s, a, b) is s[a:b].                             *)
(***************************************************************************)
EXTENDS Naturals, Integers, Sequences, FiniteSets, TLC

VARIABLES
    templ,      \* template bytes handed to ParseSegments / Execute*
    parsed,     \* result of ParseSegments(templ), or NotParsed
    parsedAgain, \* result of a second ParseSegments(templ), or NotParsed
    mode,       \* entry point running: "Execute" or "ExecuteWithFiles"
    provider,   \* the InputProvider passed in
    validators, \* validateInputFuncs: the verdict each one gives on the data
    pc,         \* position inside Execute / ExecuteWithFiles
    data,       \* local `data`
    validated,  \* verdicts of the validators invoked so far, in call order
    segments,   \* local `segments`
    segIdx,     \* index (0-based) of the next segment of the range loop
    stdout,     \* bytes received by the `output` writer
    writeCalls, \* the WriteFile calls made on fileWriter, in order
    files,      \* MemoryFileWriter.Files
    result,     \* value returned by the entry point, "running" before
    stages,     \* the stages entered so far, in order
    dirArg,     \* argument of the SetBaseDir call made on the DefaultFileWriter
    baseDir,    \* DefaultFileWriter.baseDir
    configured, \* SetBaseDir has returned
    calls,      \* per goroutine, the WriteFile calls (filename, content) it makes
    fs,         \* the directory tree: path -> directory or file (with its inode)
    inodes,     \* inode -> bytes of the file
    proc,       \* per goroutine, its position inside WriteFile and its locals
    uniqueIn,   \* the []any handed to unique
    uniqueOut,  \* what the unique calls made so far returned, in call order
    cli         \* the command line run: its inputs, its position in runE, what it
                \* has read so far and what it returned

parseVars == <<templ, parsed, parsedAgain>>
pipeVars  == <<mode, provider, validators, pc, data, validated, segments,
               segIdx, stdout, writeCalls, files, result, stages>>
fsVars    == <<dirArg, baseDir, configured, calls, fs, inodes, proc>>
funcVars  == <<uniqueIn, uniqueOut, cli>>
vars == <<parseVars, pipeVars, fsVars, funcVars>>

-----------------------------------------------------------------------------
(* Bounds *)

\* longest template, counted in pieces, given to the parser
MaxPieces == 5

\* longest template, counted in blocks, given to the pipeline
MaxBlocks == 2

\* largest number of validators registered
MaxValidators == 2

\* longest destination name, counted in "/"-separated parts
MaxNameParts == 3

\* longest SetBaseDir argument, counted in "/"-separated parts
MaxDirParts == 2

\* longest []any handed to unique
MaxUniqueLen == 4

\* largest number of WriteFile calls made on a MemoryFileWriter
MaxMemoryCalls == 2

-----------------------------------------------------------------------------
(* Byte-string helpers (Go: strings / bytes packages) *)

\* s[a:b]
Slice(s, a, b) == SubSeq(s, a + 1, b)

\* s[a:]
SliceFrom(s, a) == SubSeq(s, a + 1, Len(s))

\* strings.HasPrefix(SliceFrom(s, i), sub)
MatchAt(s, i, sub) ==
    /\ i + Len(sub) <= Len(s)
    /\ \A k \in 1..Len(sub) : s[i + k] = sub[k]

\* strings.Index(s, sub): offset of the first occurrence, -1 when absent
Index(s, sub) ==
    LET hits == {i \in 0..Len(s) : MatchAt(s, i, sub)}
    IN  IF hits = {} THEN -1
        ELSE CHOOSE i \in hits : \A j \in hits : i <= j

\* strings.Contains(s, sub)
Contains(s, sub) == Index(s, sub) # -1

\* unicode.IsSpace on the bytes the model uses
IsSpaceByte(c) == c \in {" ", "\t", "\n", "\r"}

\* strings.TrimSpace(s) == "" / len(bytes.TrimSpace(s)) == 0
IsBlank(s) == \A k \in 1..Len(s) : IsSpaceByte(s[k])

-----------------------------------------------------------------------------
(* parser.go: markers and segments *)

fileOpenPrefix == <<"#", "F", "I", "L", "E", ":">>
fileOpenSuffix == <<"#">>
fileClose      == <<"#", "F", "I", "L", "E", "#">>

SegmentStdout == "SegmentStdout"
SegmentFile   == "SegmentFile"

\* Segment{Type: SegmentStdout, Content: c}
StdoutSegment(c) == [Type |-> SegmentStdout, Content |-> c, Filename |-> <<>>]

\* Segment{Type: SegmentFile, Filename: f, Content: c}
FileSegment(f, c) == [Type |-> SegmentFile, Content |-> c, Filename |-> f]

\* return segs, nil
ParseOk(segs) == [segments |-> segs, isNil |-> FALSE, err |-> "none", offset |-> -1]

\* return nil, fmt.Errorf("... at position %d", off)
ParseErr(kind, off) == [segments |-> <<>>, isNil |-> TRUE, err |-> kind, offset |-> off]

\* the scanner's locals before the first iteration
ScanInit ==
    [pos |-> 0, inFileBlock |-> FALSE, fileBlockStart |-> 0,
     segments |-> <<>>, status |-> "scan", err |-> "none", offset |-> -1]

ScanFail(st, kind, off) == [st EXCEPT !.status = "error", !.err = kind, !.offset = off]

\* pos = pos + closeIdx + len(fileOpenSuffix): the closing marker taken to be
\* as long as the opening suffix
PosAfterClose_SuffixLen(pos, closeIdx) == pos + closeIdx + Len(fileOpenSuffix)

\* pos = pos + closeIdx: the scan left at the closing marker instead of
\* after it
PosAfterClose_AtMarker(pos, closeIdx) == pos + closeIdx

\* pos = pos + closeIdx + len(fileClose)
PosAfterClose(pos, closeIdx) == pos + closeIdx + Len(fileClose)

\* the closing marker counted only when no opening prefix is left
CloseComesFirst_OnlyWithoutOpen(openIdx, closeIdx) == closeIdx # -1 /\ openIdx = -1

\* closeIdx != -1 && (openIdx == -1 || closeIdx < openIdx)
CloseComesFirst(openIdx, closeIdx) ==
    closeIdx # -1 /\ (openIdx = -1 \/ closeIdx < openIdx)

\* the opening prefix counted only when a closing marker follows it
OpenComesFirst_OnlyBeforeClose(openIdx, closeIdx) ==
    openIdx # -1 /\ closeIdx # -1 /\ openIdx < closeIdx

\* openIdx != -1 && (closeIdx == -1 || openIdx < closeIdx)
OpenComesFirst(openIdx, closeIdx) ==
    openIdx # -1 /\ (closeIdx = -1 \/ openIdx < closeIdx)

\* the filename test without strings.TrimSpace
IsEmptyFilename_NoTrim(filename) == filename = <<>>

\* strings.TrimSpace(filename) == ""
IsEmptyFilename(filename) == IsBlank(filename)

\* the '#' of a closing marker not taken as the end of the name
FilenameEnd_NotAClose(template, filenameStart) ==
    LET i == Index(SliceFrom(template, filenameStart), fileOpenSuffix)
    IN  IF i # -1 /\ MatchAt(template, filenameStart + i, fileClose) THEN -1 ELSE i

\* the name ended at the second '#' after the prefix when there is one
FilenameEnd_SecondHash(template, filenameStart) ==
    LET i == Index(SliceFrom(template, filenameStart), fileOpenSuffix)
        j == IF i = -1 THEN -1
             ELSE Index(SliceFrom(template, filenameStart + i + 1), fileOpenSuffix)
    IN  IF j = -1 THEN i ELSE i + 1 + j

\* filenameEnd := strings.Index(template[filenameStart:], fileOpenSuffix)
FilenameEnd(template, filenameStart) ==
    Index(SliceFrom(template, filenameStart), fileOpenSuffix)

\* One iteration of the for-loop of ParseSegments (entered with pos < len).
ScanStep(template, st) ==
    LET pos      == st.pos
        rest     == SliceFrom(template, pos)
        openIdx  == Index(rest, fileOpenPrefix)
        closeIdx == Index(rest, fileClose)
    IN
    IF openIdx = -1 /\ closeIdx = -1 THEN
        IF st.inFileBlock THEN ScanFail(st, "unclosed", st.fileBlockStart)
        ELSE [st EXCEPT !.status = "break",
                        !.segments = IF pos < Len(template)
                                     THEN Append(@, StdoutSegment(rest))
                                     ELSE @]
    ELSE IF ~st.inFileBlock THEN
        IF CloseComesFirst(openIdx, closeIdx)
        THEN ScanFail(st, "unexpectedClose", pos + closeIdx)
        ELSE \* openIdx # -1 here
            LET before        == IF openIdx > 0
                                 THEN Append(st.segments,
                                        StdoutSegment(Slice(template, pos, pos + openIdx)))
                                 ELSE st.segments
                openStart     == pos + openIdx
                filenameStart == openStart + Len(fileOpenPrefix)
                filenameEnd   == FilenameEnd(template, filenameStart)
                filename      == Slice(template, filenameStart, filenameStart + filenameEnd)
            IN
            IF filenameEnd = -1 THEN
                [ScanFail(st, "malformed", openStart) EXCEPT !.segments = before]
            ELSE IF IsEmptyFilename(filename) THEN
                [ScanFail(st, "emptyFilename", openStart) EXCEPT !.segments = before]
            ELSE IF Contains(filename, fileOpenPrefix) THEN
                [ScanFail(st, "nested", openStart) EXCEPT !.segments = before]
            ELSE
                [st EXCEPT !.fileBlockStart = openStart,
                           !.inFileBlock = TRUE,
                           !.pos = filenameStart + filenameEnd + Len(fileOpenSuffix),
                           !.segments = Append(before, FileSegment(filename, <<>>))]
    ELSE
        IF OpenComesFirst(openIdx, closeIdx)
        THEN ScanFail(st, "nested", pos + openIdx)
        ELSE IF closeIdx # -1 THEN
            [st EXCEPT !.segments[Len(st.segments)].Content =
                            Slice(template, pos, pos + closeIdx),
                       !.inFileBlock = FALSE,
                       !.pos = PosAfterClose(pos, closeIdx)]
        ELSE ScanFail(st, "unclosed", st.fileBlockStart)

\* The for-loop: iterate while pos < len(template) and no return/break.
RECURSIVE ScanLoop(_, _)
ScanLoop(template, st) ==
    IF st.status = "scan" /\ st.pos < Len(template)
    THEN ScanLoop(template, ScanStep(template, st))
    ELSE st

\* the edge test without bytes.TrimSpace: only zero-length content is dropped
KeepAtEdge_NoTrim(seg) == seg.Type = SegmentFile \/ Len(seg.Content) > 0

\* the edge test without the SegmentFile exemption
KeepAtEdge_ContentOnly(seg) == ~IsBlank(seg.Content)

\* seg.Type == SegmentFile || len(bytes.TrimSpace(seg.Content)) > 0
KeepAtEdge(seg) == seg.Type = SegmentFile \/ ~IsBlank(seg.Content)

\* the filter dropping every segment that fails the edge test, wherever it is
filterEmptyEdgeSegments_Everywhere(segs) ==
    IF SelectSeq(segs, KeepAtEdge) = <<>> THEN <<StdoutSegment(<<>>)>>
    ELSE SelectSeq(segs, KeepAtEdge)

filterEmptyEdgeSegments(segs) ==
    IF Len(segs) = 0 THEN segs
    ELSE
    LET n      == Len(segs)
        kept   == {i \in 1..n : KeepAtEdge(segs[i])}
        \* `start`: number of leading segments skipped
        start  == IF kept = {} THEN n
                  ELSE (CHOOSE i \in kept : \A j \in kept : i <= j) - 1
        \* `end`: one past the last segment kept
        endIdx == IF kept = {} THEN start
                  ELSE CHOOSE i \in kept : \A j \in kept : j <= i
    IN  IF start >= endIdx THEN <<StdoutSegment(<<>>)>>
        ELSE SubSeq(segs, start + 1, endIdx)

\* ParseSegments returning, with the error, the segments built so far
ParseSegments_PartialOnError(templateBytes) ==
    IF Len(templateBytes) = 0 THEN ParseOk(<<StdoutSegment(<<>>)>>)
    ELSE
    LET st == ScanLoop(templateBytes, ScanInit)
    IN  IF st.status = "error"
        THEN [segments |-> st.segments, isNil |-> FALSE, err |-> st.err, offset |-> st.offset]
        ELSE IF st.inFileBlock THEN ParseErr("unclosed", st.fileBlockStart)
        ELSE IF Len(st.segments) = 0 THEN ParseOk(<<StdoutSegment(templateBytes)>>)
        ELSE ParseOk(filterEmptyEdgeSegments(st.segments))

\* ParseSegments without the inFileBlock test after the loop
ParseSegments_NoFinalCheck(templateBytes) ==
    IF Len(templateBytes) = 0 THEN ParseOk(<<StdoutSegment(<<>>)>>)
    ELSE
    LET st == ScanLoop(templateBytes, ScanInit)
    IN  IF st.status = "error" THEN ParseErr(st.err, st.offset)
        ELSE IF Len(st.segments) = 0 THEN ParseOk(<<StdoutSegment(templateBytes)>>)
        ELSE ParseOk(filterEmptyEdgeSegments(st.segments))

ParseSegments(templateBytes) ==
    IF Len(templateBytes) = 0 THEN ParseOk(<<StdoutSegment(<<>>)>>)
    ELSE
    LET st == ScanLoop(templateBytes, ScanInit)
    IN  IF st.status = "error" THEN ParseErr(st.err, st.offset)
        ELSE IF st.inFileBlock THEN ParseErr("unclosed", st.fileBlockStart)
        ELSE IF Len(st.segments) = 0 THEN ParseOk(<<StdoutSegment(templateBytes)>>)
        ELSE ParseOk(filterEmptyEdgeSegments(st.segments))

-----------------------------------------------------------------------------
(* functions.go: unique *)

\* values of type any: the dynamic type and the value as text; nil has no type
NilElem == [type |-> "nil", val |-> "nil"]
Elem(t, v) == [type |-> t, val |-> v]
NaN == Elem("float64", "NaN")

\* reflect.TypeOf(elem).Comparable()
Comparable(t) == t \notin {"[]int", "map[string]int"}

\* a == b on two values of type any
GoEqual(a, b) == a = b /\ a # NaN

\* a []any: nil, or a slice with its elements
NilSlice == [isNil |-> TRUE, elems |-> <<>>]
SliceOf(es) == [isNil |-> FALSE, elems |-> es]

\* return result, nil / return nil, fmt.Errorf(...)
UniqueOk(es) == [isNil |-> FALSE, elems |-> es, err |-> "none", errType |-> "none"]
UniqueNil == [isNil |-> TRUE, elems |-> <<>>, err |-> "none", errType |-> "none"]
UniqueErr(t) ==
    [isNil |-> TRUE, elems |-> <<>>,
     err |-> "unique: elements of type %s are not comparable", errType |-> t]

\* the lookup with the dynamic type left out of the comparison
SeenBefore_ValueOnly(seen, elem) == \E s \in seen : s.val = elem.val /\ elem # NaN

\* _, exists := seen[elem]
SeenBefore(seen, elem) == \E s \in seen : GoEqual(s, elem)

\* the range loop of unique over the elements left
RECURSIVE UniqueLoop(_, _, _)
UniqueLoop(elems, seen, uniq) ==
    IF elems = <<>> THEN UniqueOk(uniq)
    ELSE LET elem == Head(elems)
         IN  IF elem # NilElem /\ ~Comparable(elem.type) THEN UniqueErr(elem.type)
             ELSE IF ~SeenBefore(seen, elem)
                  THEN UniqueLoop(Tail(elems), seen \cup {elem}, Append(uniq, elem))
                  ELSE UniqueLoop(Tail(elems), seen, uniq)

\* unique without the test for a nil input
unique_NilAsEmpty(input) == UniqueLoop(input.elems, {}, <<>>)

\* unique(input)
unique(input) ==
    IF input.isNil THEN UniqueNil
    ELSE UniqueLoop(input.elems, {}, <<>>)

\* the elements handed to unique
Elems ==
    { NilElem, Elem("int", "1"), Elem("int", "2"), Elem("string", "1"), NaN,
      Elem("[]int", "1"), Elem("map[string]int", "1") }

UniqueInputs ==
    {NilSlice} \cup {SliceOf(es) : es \in UNION {[1..n -> Elems] : n \in 0..MaxUniqueLen}}

\* unique has not been called
FuncIdle ==
    /\ uniqueIn = NilSlice
    /\ uniqueOut = <<>>
    /\ cli = <<>>

-----------------------------------------------------------------------------
(* Rendering capability (text/template), as far as the pipeline sees it:    *)
(* text is copied, {{.}} prints the data, {{.x}} prints <no value> on nil   *)
(* data and fails at execution time on a string, a call of a function       *)
(* parses when the function is registered, any other {{ is a syntax error.  *)
(* Execution streams to the writer: what precedes a failing action is       *)
(* already written.                                                         *)

\* a nil interface value / a string value
NilData == [isNil |-> TRUE, text |-> <<>>]
StrData(s) == [isNil |-> FALSE, text |-> s]

leftDelim   == <<"{", "{">>
actionDot   == <<"{", "{", ".", "}", "}">>
actionField == <<"{", "{", ".", "x", "}", "}">>

\* {{env ""}}, {{envOrDefault "" "a"}}, {{unique .}}
actionEnv == <<"{", "{", "e", "n", "v", " ", "\"", "\"", "}", "}">>
actionEnvOrDefault ==
    <<"{", "{", "e", "n", "v", "O", "r", "D", "e", "f", "a", "u", "l", "t", " ",
      "\"", "\"", " ", "\"", "a", "\"", "}", "}">>
actionUnique == <<"{", "{", "u", "n", "i", "q", "u", "e", " ", ".", "}", "}">>

\* the function maps without unique in the one given to segments
SegmentFuncs_NoUnique == {"env", "envOrDefault"}

\* the template.FuncMap literal of Execute, and the one of renderSegment
ExecuteFuncs == {"env", "envOrDefault", "unique"}
SegmentFuncs == {"env", "envOrDefault", "unique"}

\* what {{.}} prints
DataText(d) ==
    IF d.isNil THEN <<"<", "n", "o", " ", "v", "a", "l", "u", "e", ">">>
    ELSE d.text

\* os.Getenv(""): no variable has the empty name
GetenvEmpty == <<>>

\* envOrDefault("", defaultValue)
envOrDefault(defaultValue) ==
    IF GetenvEmpty = <<>> THEN defaultValue ELSE GetenvEmpty

\* what {{unique .}} does: a nil dot becomes the nil []any, which unique
\* returns and the template prints as []; a string is not a []any
CallUniqueOnDot(d) ==
    IF d.isNil /\ unique(NilSlice).err = "none"
    THEN [out |-> <<"[", "]">>, err |-> "none"]
    ELSE [out |-> <<>>, err |-> "execute"]

\* template.New(...).Funcs(funcs).Parse(...) succeeds
RECURSIVE TemplateParses(_, _)
TemplateParses(t, funcs) ==
    LET i == Index(t, leftDelim)
    IN  IF i = -1 THEN TRUE
        ELSE IF MatchAt(t, i, actionDot)
             THEN TemplateParses(SliceFrom(t, i + Len(actionDot)), funcs)
        ELSE IF MatchAt(t, i, actionField)
             THEN TemplateParses(SliceFrom(t, i + Len(actionField)), funcs)
        ELSE IF MatchAt(t, i, actionEnv)
             THEN "env" \in funcs
                  /\ TemplateParses(SliceFrom(t, i + Len(actionEnv)), funcs)
        ELSE IF MatchAt(t, i, actionEnvOrDefault)
             THEN "envOrDefault" \in funcs
                  /\ TemplateParses(SliceFrom(t, i + Len(actionEnvOrDefault)), funcs)
        ELSE IF MatchAt(t, i, actionUnique)
             THEN "unique" \in funcs
                  /\ TemplateParses(SliceFrom(t, i + Len(actionUnique)), funcs)
        ELSE FALSE

\* the bytes of one action followed by what the rest of the template writes
ThenRest(before, printed, r) ==
    [out |-> before \o printed \o r.out, err |-> r.err]

\* tmpl.Execute(output, data) on a template that parsed: the bytes written
\* and whether execution failed
RECURSIVE TemplateExecute(_, _)
TemplateExecute(t, d) ==
    LET i == Index(t, leftDelim)
    IN  IF i = -1 THEN [out |-> t, err |-> "none"]
        ELSE IF MatchAt(t, i, actionDot)
             THEN ThenRest(Slice(t, 0, i), DataText(d),
                           TemplateExecute(SliceFrom(t, i + Len(actionDot)), d))
        ELSE IF MatchAt(t, i, actionEnv)
             THEN ThenRest(Slice(t, 0, i), GetenvEmpty,
                           TemplateExecute(SliceFrom(t, i + Len(actionEnv)), d))
        ELSE IF MatchAt(t, i, actionEnvOrDefault)
             THEN ThenRest(Slice(t, 0, i), envOrDefault(<<"a">>),
                           TemplateExecute(SliceFrom(t, i + Len(actionEnvOrDefault)), d))
        ELSE IF MatchAt(t, i, actionField) /\ d.isNil
             THEN ThenRest(Slice(t, 0, i), DataText(d),
                           TemplateExecute(SliceFrom(t, i + Len(actionField)), d))
        ELSE IF MatchAt(t, i, actionUnique) /\ CallUniqueOnDot(d).err = "none"
             THEN ThenRest(Slice(t, 0, i), CallUniqueOnDot(d).out,
                           TemplateExecute(SliceFrom(t, i + Len(actionUnique)), d))
        ELSE [out |-> Slice(t, 0, i), err |-> "execute"]

\* renderSegment(templateContent, data, output): bytes appended to output
\* and the error returned
renderSegment(templateContent, d) ==
    IF ~TemplateParses(templateContent, SegmentFuncs) THEN [out |-> <<>>, err |-> "parse"]
    ELSE TemplateExecute(templateContent, d)

-----------------------------------------------------------------------------
(* Input providers and validators *)

\* classes of YAML input, by what yaml.Unmarshal makes of them
YamlInvalid == "key: : bad"
YamlNoDocument == ""
YamlEmptyString == "''"
YamlString == "v"

\* AnyProvider(input)()
AnyProvider(input) ==
    IF input.isNil THEN [data |-> NilData, err |-> "input is nil"]
    ELSE [data |-> input, err |-> "none"]

\* YamlProvider(input)(): `var data any` stays nil when the input holds no
\* document
YamlProvider(input) ==
    IF input = YamlInvalid THEN [data |-> NilData, err |-> "failed to unmarshal YAML input"]
    ELSE IF input = YamlNoDocument THEN [data |-> NilData, err |-> "none"]
    ELSE IF input = YamlEmptyString THEN [data |-> StrData(<<>>), err |-> "none"]
    ELSE [data |-> StrData(<<"v">>), err |-> "none"]

\* inputProvider()
CallInputProvider(p) ==
    IF p.kind = "AnyProvider" THEN AnyProvider(p.input) ELSE YamlProvider(p.input)

Providers ==
    {[kind |-> "AnyProvider", input |-> x] : x \in {NilData, StrData(<<"v">>)}}
    \cup {[kind |-> "YamlProvider", input |-> y] :
                y \in {YamlInvalid, YamlNoDocument, YamlEmptyString, YamlString}}

\* the validator lists: each validator is given by its verdict on the data
ValidatorLists == UNION {[1..n -> {"pass", "fail"}] : n \in 0..MaxValidators}

-----------------------------------------------------------------------------
(* MemoryFileWriter *)

\* w.Files[fullPath] = content
MapPut(m, k, v) == [x \in DOMAIN m \cup {k} |-> IF x = k THEN v ELSE m[x]]

-----------------------------------------------------------------------------
(* path/filepath on Unix, on byte strings *)

Separator == <<"/">>
DotDot    == <<".", ".">>
Dot       == <<".">>

\* the non-empty elements between separators
RECURSIVE SplitPath(_)
SplitPath(path) ==
    LET i == Index(path, Separator)
    IN  IF i = -1 THEN (IF path = <<>> THEN <<>> ELSE <<path>>)
        ELSE (IF i = 0 THEN <<>> ELSE <<Slice(path, 0, i)>>)
                \o SplitPath(SliceFrom(path, i + 1))

\* strings.Join(elems, "/")
RECURSIVE JoinElems(_)
JoinElems(elems) ==
    IF elems = <<>> THEN <<>>
    ELSE IF Len(elems) = 1 THEN elems[1]
    ELSE elems[1] \o Separator \o JoinElems(Tail(elems))

IsRooted(path) == Len(path) > 0 /\ path[1] = "/"

\* Clean's element pass: "." dropped, ".." cancels the element before it,
\* ".." at the root dropped, leading ".." of a relative path kept
RECURSIVE CleanElems(_, _, _)
CleanElems(elems, rooted, acc) ==
    IF elems = <<>> THEN acc
    ELSE LET e == Head(elems)
         IN  IF e = Dot THEN CleanElems(Tail(elems), rooted, acc)
             ELSE IF e = DotDot THEN
                 IF acc # <<>> /\ acc[Len(acc)] # DotDot
                 THEN CleanElems(Tail(elems), rooted, SubSeq(acc, 1, Len(acc) - 1))
                 ELSE IF rooted THEN CleanElems(Tail(elems), rooted, acc)
                 ELSE CleanElems(Tail(elems), rooted, Append(acc, e))
             ELSE CleanElems(Tail(elems), rooted, Append(acc, e))

\* filepath.Clean
Clean(path) ==
    IF path = <<>> THEN Dot
    ELSE LET elems == CleanElems(SplitPath(path), IsRooted(path), <<>>)
         IN  IF IsRooted(path) THEN Separator \o JoinElems(elems)
             ELSE IF elems = <<>> THEN Dot
             ELSE JoinElems(elems)

\* filepath.Join(a, b)
Join(a, b) ==
    IF a = <<>> /\ b = <<>> THEN <<>>
    ELSE IF a = <<>> THEN Clean(b)
    ELSE IF b = <<>> THEN Clean(a)
    ELSE Clean(a \o Separator \o b)

\* offset just past the last separator of path, 0 when it has none
LastSeparatorEnd(path) ==
    LET seps == {i \in 1..Len(path) : path[i] = "/"}
    IN  IF seps = {} THEN 0 ELSE CHOOSE i \in seps : \A j \in seps : j <= i

\* filepath.Dir
Dir(path) == Clean(Slice(path, 0, LastSeparatorEnd(path)))

\* n copies of ".."
DotDots(n) == [k \in 1..n |-> DotDot]

\* length of the longest common prefix of two element lists
CommonPrefixLen(b, t) ==
    LET agree == {k \in 0..Len(b) : k <= Len(t) /\ \A j \in 1..k : b[j] = t[j]}
    IN  CHOOSE k \in agree : \A j \in agree : j <= k

\* Rel on cleaned paths split into elements, k elements in common
RelFrom(b, t, k) ==
    IF k < Len(b) THEN
        IF b[k + 1] = DotDot THEN [path |-> <<>>, err |-> TRUE]
        ELSE [path |-> JoinElems(DotDots(Len(b) - k) \o SubSeq(t, k + 1, Len(t))),
              err |-> FALSE]
    ELSE [path |-> JoinElems(SubSeq(t, k + 1, Len(t))), err |-> FALSE]

RelElems(b, t) == RelFrom(b, t, CommonPrefixLen(b, t))

\* Rel on cleaned paths
RelClean(base, targ) ==
    IF targ = base THEN [path |-> Dot, err |-> FALSE]
    ELSE IF (base # Dot /\ IsRooted(base)) # IsRooted(targ)
         THEN [path |-> <<>>, err |-> TRUE]
    ELSE RelElems(IF base = Dot THEN <<>> ELSE SplitPath(base), SplitPath(targ))

\* filepath.Rel(basepath, targpath)
Rel(basepath, targpath) == RelClean(Clean(basepath), Clean(targpath))

-----------------------------------------------------------------------------
(* MemoryFileWriter.WriteFile *)

\* the key stored under: the name, joined onto the base directory if one is set
MemoryFullPath(base, filename) ==
    IF base # <<>> THEN Join(base, filename) ELSE filename

\* WriteFile without the test for an empty name
MemoryWriteFileIn_NoEmptyCheck(base, m, filename, content) ==
    [files |-> MapPut(m, MemoryFullPath(base, filename), content), err |-> "none"]

\* MemoryFileWriter.WriteFile, w.baseDir being base and w.Files being m
MemoryWriteFileIn(base, m, filename, content) ==
    IF filename = <<>> THEN [files |-> m, err |-> "filename cannot be empty"]
    ELSE [files |-> MapPut(m, MemoryFullPath(base, filename), content), err |-> "none"]

\* MemoryFileWriter.WriteFile with no base directory set
MemoryWriteFile(m, filename, content) == MemoryWriteFileIn(<<>>, m, filename, content)

-----------------------------------------------------------------------------
(* The filesystem under the DefaultFileWriter *)

DirNode       == [kind |-> "dir", ino |-> 0]
FileNode(ino) == [kind |-> "file", ino |-> ino]

Exists(tree, path) == path \in DOMAIN tree
IsDir(tree, path)  == path \in {Dot, Separator} \/ (Exists(tree, path) /\ tree[path].kind = "dir")
IsFile(tree, path) == Exists(tree, path) /\ tree[path].kind = "file"

MapRemove(m, k) == [x \in DOMAIN m \ {k} |-> m[x]]

\* path and every directory above it, as clean paths
Ancestors(path) ==
    LET elems == SplitPath(path)
    IN  {(IF IsRooted(path) THEN Separator ELSE <<>>) \o JoinElems(SubSeq(elems, 1, k)) :
            k \in 1..Len(elems)}

\* os.MkdirAll(dir, 0755): fails when a file is in the way
MkdirAll(tree, dir) ==
    IF \E d \in Ancestors(dir) : IsFile(tree, d) THEN [fs |-> tree, err |-> TRUE]
    ELSE [fs |-> [x \in DOMAIN tree \cup (Ancestors(dir) \ {Dot}) |->
                    IF x \in DOMAIN tree THEN tree[x] ELSE DirNode],
          err |-> FALSE]

\* what a reader finds under path
Absent == [exists |-> FALSE, content |-> <<>>]
ReadFile(tree, inos, path) ==
    IF IsFile(tree, path) THEN [exists |-> TRUE, content |-> inos[tree[path].ino]]
    ELSE Absent

\* write(2) of bytes at offset off: a gap left by a truncation reads as NUL
WriteAt(content, off, bytes) ==
    [k \in 1..(IF off + Len(bytes) > Len(content) THEN off + Len(bytes) ELSE Len(content)) |->
        IF k > off /\ k <= off + Len(bytes) THEN bytes[k - off]
        ELSE IF k <= Len(content) THEN content[k]
        ELSE "NUL"]

-----------------------------------------------------------------------------
(* DefaultFileWriter *)

\* the traversal test made on the cleaned name instead of the raw name
HasTraversal_AfterClean(filename) == Contains(Clean(filename), DotDot)

\* strings.Contains(filename, "..")
HasTraversal(filename) == Contains(filename, DotDot)

\* tmpFile := cleanFilename: the content written in place
TmpFile_InPlace(cleanFilename) == cleanFilename

\* tmpFile := cleanFilename + ".tmp"
TmpFile(cleanFilename) == cleanFilename \o <<".", "t", "m", "p">>

ResolveErr(e) == [err |-> e, cleanFilename |-> <<>>]

\* WriteFile without a base directory: the name is only checked and cleaned
ResolvePath_NoBaseDir(base, filename) ==
    IF filename = <<>> THEN ResolveErr("filename cannot be empty")
    ELSE IF HasTraversal(filename) THEN ResolveErr("path traversal not allowed in filename")
    ELSE [err |-> "nil", cleanFilename |-> Clean(filename)]

\* err != nil || strings.HasPrefix(relPath, "..")
EscapesBase(rel) == rel.err \/ MatchAt(rel.path, 0, DotDot)

\* the confinement check on cleanFilename
ConfineToBase(base, cleanFilename) ==
    IF base # <<>> /\ EscapesBase(Rel(base, cleanFilename))
    THEN ResolveErr("resolved path is outside output directory")
    ELSE [err |-> "nil", cleanFilename |-> cleanFilename]

\* WriteFile up to the confinement check: the error returned, or the
\* cleanFilename the call goes on with
ResolvePath(base, filename) ==
    IF filename = <<>> THEN ResolveErr("filename cannot be empty")
    ELSE IF HasTraversal(filename) THEN ResolveErr("path traversal not allowed in filename")
    ELSE ConfineToBase(base, Clean(IF base # <<>> THEN Join(base, filename) ELSE filename))

-----------------------------------------------------------------------------
(* Inputs of the parser specification *)

Pieces ==
    { fileOpenPrefix, fileClose, <<"#">>, <<"#", "F", "I", "L", "E">>, <<"a">>, <<" ">>,
      fileOpenPrefix \o <<"a">> \o fileOpenSuffix \o fileClose }

RECURSIVE PieceStrings(_)
PieceStrings(k) ==
    IF k = 0 THEN {<<>>}
    ELSE {t \o p : t \in PieceStrings(k - 1), p \in Pieces}

Templates == UNION {PieceStrings(k) : k \in 0..MaxPieces}

NotParsed == [segments |-> <<>>, isNil |-> TRUE, err |-> "pending", offset |-> -1]

-----------------------------------------------------------------------------
(* Specification of the parser: pick a template, call ParseSegments *)

\* the value returned by Execute / ExecuteWithFiles: the message prefix, the
\* segment index and file name the message carries, the wrapped error and
\* the validator (1-based) that produced it
Result(kind, seg, name, wrapped, validator) ==
    [err |-> kind, seg |-> seg, name |-> name, wrapped |-> wrapped, validator |-> validator]

Running   == Result("running", -1, <<>>, "none", 0)
ReturnNil == Result("nil", -1, <<>>, "none", 0)

\* the pipeline before any entry point is called
PipelineIdle ==
    /\ mode = "none"
    /\ provider = [kind |-> "none", input |-> "none"]
    /\ validators = <<>>
    /\ pc = "idle"
    /\ data = NilData
    /\ validated = <<>>
    /\ segments = <<>>
    /\ segIdx = 0
    /\ stdout = <<>>
    /\ writeCalls = <<>>
    /\ files = <<>>
    /\ result = Running
    /\ stages = <<>>

\* no DefaultFileWriter in use
WriterIdle ==
    /\ dirArg = <<>>
    /\ baseDir = <<>>
    /\ configured = FALSE
    /\ calls = <<>>
    /\ fs = <<>>
    /\ inodes = <<>>
    /\ proc = <<>>

InitParse ==
    /\ templ \in Templates
    /\ parsed = NotParsed
    /\ parsedAgain = NotParsed
    /\ FuncIdle
    /\ PipelineIdle
    /\ WriterIdle

CallParseSegments ==
    /\ parsed = NotParsed
    /\ parsed' = ParseSegments(templ)
    /\ UNCHANGED <<templ, parsedAgain, pipeVars, fsVars, funcVars>>

\* a second call that finds the segments of the first call still in place
CallParseSegmentsAgain_SegmentsKept ==
    /\ parsed # NotParsed
    /\ parsedAgain = NotParsed
    /\ parsedAgain' = [ParseSegments(templ) EXCEPT
                            !.segments = IF ParseSegments(templ).isNil THEN @
                                         ELSE parsed.segments \o @]
    /\ UNCHANGED <<templ, parsed, pipeVars, fsVars, funcVars>>

\* ParseSegments(templ) called once more on the same bytes
CallParseSegmentsAgain ==
    /\ parsed # NotParsed
    /\ parsedAgain = NotParsed
    /\ parsedAgain' = ParseSegments(templ)
    /\ UNCHANGED <<templ, parsed, pipeVars, fsVars, funcVars>>

NextParse ==
    \/ CallParseSegments
    \/ CallParseSegmentsAgain

SpecParse == InitParse /\ [][NextParse]_vars

-----------------------------------------------------------------------------
(* Specification of unique: pick a slice, call unique on it, then on the   *)
(* slice it returned                                                       *)

InitUnique ==
    /\ templ = <<>>
    /\ parsed = NotParsed
    /\ parsedAgain = NotParsed
    /\ PipelineIdle
    /\ WriterIdle
    /\ uniqueIn \in UniqueInputs
    /\ uniqueOut = <<>>
    /\ cli = <<>>

\* out, err := unique(uniqueIn)
CallUnique ==
    /\ uniqueOut = <<>>
    /\ uniqueOut' = <<unique(uniqueIn)>>
    /\ UNCHANGED <<parseVars, pipeVars, fsVars, uniqueIn, cli>>

\* unique(out), out being the slice the first call returned
CallUniqueOnResult ==
    /\ Len(uniqueOut) = 1
    /\ uniqueOut[1].err = "none"
    /\ uniqueOut' = Append(uniqueOut,
                           unique([isNil |-> uniqueOut[1].isNil, elems |-> uniqueOut[1].elems]))
    /\ UNCHANGED <<parseVars, pipeVars, fsVars, uniqueIn, cli>>

NextUnique ==
    \/ CallUnique
    \/ CallUniqueOnResult

SpecUnique == InitUnique /\ [][NextUnique]_vars

-----------------------------------------------------------------------------
(* Specification of the command line: one call of runE.  The flags, the    *)
(* arguments, standard input and the files named are the inputs; reads     *)
(* lists what runE has read, in order.                                     *)

\* standard input: a terminal, a pipe or redirection, or a closed
\* descriptor, with the bytes io.ReadAll would return and whether it fails
StdinStates ==
    {[kind |-> k, data |-> b, readErr |-> e] :
        k \in {"terminal", "pipe"}, b \in {"", "i"}, e \in BOOLEAN}
    \cup {[kind |-> "closed", data |-> "", readErr |-> TRUE]}

\* the globals inputContent and inputSchemaFile, args, standard input, and
\* the content of the files named ("missing" when the file cannot be read)
CliInputs ==
    [ args : {<<>>, <<"t">>, <<"t", "-">>, <<"t", "d">>, <<"t", "d", "x">>},
      inputContent : {"", "c"},
      inputSchemaFile : {"", "s"},
      stdin : StdinStates,
      dataFile : {"missing", "", "d"},
      templateFile : {"missing", "t"},
      schemaFile : {"missing", "s"} ]

InitCli ==
    /\ templ = <<>>
    /\ parsed = NotParsed
    /\ parsedAgain = NotParsed
    /\ PipelineIdle
    /\ WriterIdle
    /\ uniqueIn = NilSlice
    /\ uniqueOut = <<>>
    /\ \E in \in CliInputs :
          cli = [in |-> in, pc |-> "input", source |-> "", dataBytes |-> "",
                 reads |-> <<>>, ret |-> "running"]

\* what the choice of the input source gives
Chosen(source, dataBytes, reads, err) ==
    [source |-> source, dataBytes |-> dataBytes, reads |-> reads, err |-> err]

\* the choice with the data file argument tried before piped standard input
DataSource_FileBeforePipe(in) ==
    IF in.inputContent # "" THEN Chosen("content flag", in.inputContent, <<>>, "none")
    ELSE IF Len(in.args) = 2 /\ in.args[2] = "-" THEN
        IF in.stdin.readErr
        THEN Chosen("", "", <<"stdin">>, "failed to read data from stdin (via '-')")
        ELSE Chosen("explicit stdin ('-')", in.stdin.data, <<"stdin">>, "none")
    ELSE IF Len(in.args) = 2 THEN
        IF in.dataFile = "missing"
        THEN Chosen("", "", <<"data file">>, "failed to read YAML data from file")
        ELSE Chosen("file argument", in.dataFile, <<"data file">>, "none")
    ELSE IF in.stdin.kind = "closed" THEN Chosen("", "", <<>>, "panic")
    ELSE IF in.stdin.kind = "pipe" THEN
        IF in.stdin.readErr
        THEN Chosen("", "", <<"stdin">>, "failed to read YAML data from stdin")
        ELSE Chosen("implicit stdin (pipe/redirect)", in.stdin.data, <<"stdin">>, "none")
    ELSE Chosen("", "", <<>>, "no data provided")

\* runE, `Determine Input Source`: the flag, the '-' argument, piped
\* standard input, the data file argument; os.Stdin.Stat() on a closed
\* descriptor returns a nil FileInfo and stat.Mode() panics
DataSource(in) ==
    IF in.inputContent # "" THEN Chosen("content flag", in.inputContent, <<>>, "none")
    ELSE IF Len(in.args) = 2 /\ in.args[2] = "-" THEN
        IF in.stdin.readErr
        THEN Chosen("", "", <<"stdin">>, "failed to read data from stdin (via '-')")
        ELSE Chosen("explicit stdin ('-')", in.stdin.data, <<"stdin">>, "none")
    ELSE IF in.stdin.kind = "closed" THEN Chosen("", "", <<>>, "panic")
    ELSE IF in.stdin.kind = "pipe" THEN
        IF in.stdin.readErr
        THEN Chosen("", "", <<"stdin">>, "failed to read YAML data from stdin")
        ELSE Chosen("implicit stdin (pipe/redirect)", in.stdin.data, <<"stdin">>, "none")
    ELSE IF Len(in.args) = 2 THEN
        IF in.dataFile = "missing"
        THEN Chosen("", "", <<"data file">>, "failed to read YAML data from file")
        ELSE Chosen("file argument", in.dataFile, <<"data file">>, "none")
    ELSE Chosen("", "", <<>>, "no data provided")

\* runE from its entry to the test len(dataBytes) == 0
DetermineInput ==
    /\ cli # <<>>
    /\ cli.pc = "input"
    /\ LET c == DataSource(cli.in)
       IN  cli' =
             IF Len(cli.in.args) < 1
             THEN [cli EXCEPT !.pc = "done", !.ret = "no template file provided"]
             ELSE IF Len(cli.in.args) > 2
             THEN [cli EXCEPT !.pc = "done", !.ret = "too many arguments provided"]
             ELSE IF c.err # "none"
             THEN [cli EXCEPT !.pc = "done", !.ret = c.err, !.reads = c.reads]
             ELSE IF c.dataBytes = ""
             THEN [cli EXCEPT !.pc = "done", !.ret = "no input provided from",
                              !.source = c.source, !.reads = c.reads]
             ELSE [cli EXCEPT !.pc = "template", !.source = c.source,
                              !.dataBytes = c.dataBytes, !.reads = c.reads]
    /\ UNCHANGED <<parseVars, pipeVars, fsVars, uniqueIn, uniqueOut>>

\* templateBytes, err := os.ReadFile(templateFile)
ReadTemplateFile ==
    /\ cli # <<>>
    /\ cli.pc = "template"
    /\ cli' = IF cli.in.templateFile = "missing"
              THEN [cli EXCEPT !.pc = "done", !.ret = "failed to read template file",
                               !.reads = Append(@, "template")]
              ELSE [cli EXCEPT !.pc = "execute", !.reads = Append(@, "template")]
    /\ UNCHANGED <<parseVars, pipeVars, fsVars, uniqueIn, uniqueOut>>

\* the schema file read if one is named, then executor.Execute, whose
\* result is returned
RunExecute ==
    /\ cli # <<>>
    /\ cli.pc = "execute"
    /\ IF cli.in.inputSchemaFile # "" /\ cli.in.schemaFile = "missing"
       THEN cli' = [cli EXCEPT !.pc = "done", !.ret = "failed to read schema file",
                               !.reads = Append(@, "schema")]
       ELSE \E r \in {"nil", "error of Execute"} :
              cli' = [cli EXCEPT !.pc = "done", !.ret = r,
                                 !.reads = IF cli.in.inputSchemaFile # ""
                                           THEN @ \o <<"schema", "Execute">>
                                           ELSE Append(@, "Execute")]
    /\ UNCHANGED <<parseVars, pipeVars, fsVars, uniqueIn, uniqueOut>>

NextCli ==
    \/ DetermineInput
    \/ ReadTemplateFile
    \/ RunExecute

SpecCli == InitCli /\ [][NextCli]_vars

-----------------------------------------------------------------------------
(* Inputs of the pipeline specification: templates made of whole blocks *)

\* a call of each registered function
helperCalls == actionEnv \o actionEnvOrDefault \o actionUnique

Blocks ==
    { <<"a">>,
      <<" ">>,
      actionDot,
      leftDelim,
      <<"a">> \o actionField,
      fileOpenPrefix \o <<"f">> \o fileOpenSuffix \o <<"b">> \o fileClose,
      fileOpenPrefix \o <<"f">> \o fileOpenSuffix \o fileClose,
      <<"a">> \o fileOpenPrefix \o <<"f">> \o fileOpenSuffix \o <<"b">> \o fileClose,
      fileOpenPrefix \o actionDot \o fileOpenSuffix \o actionDot \o fileClose,
      fileOpenPrefix \o <<"f">> \o fileOpenSuffix \o leftDelim \o fileClose,
      fileOpenPrefix \o leftDelim \o fileOpenSuffix \o <<"b">> \o fileClose,
      fileOpenPrefix \o <<"f">> \o fileOpenSuffix,
      fileClose,
      helperCalls,
      fileOpenPrefix \o helperCalls \o fileOpenSuffix \o helperCalls \o fileClose }

RECURSIVE BlockStrings(_)
BlockStrings(k) ==
    IF k = 0 THEN {<<>>}
    ELSE {t \o b : t \in BlockStrings(k - 1), b \in Blocks}

PipelineTemplates == UNION {BlockStrings(k) : k \in 0..MaxBlocks}

-----------------------------------------------------------------------------
(* Specification of the pipeline: one call of Execute or ExecuteWithFiles  *)

Init ==
    /\ templ \in PipelineTemplates
    /\ parsed = NotParsed
    /\ parsedAgain = NotParsed
    /\ FuncIdle
    /\ mode \in {"Execute", "ExecuteWithFiles"}
    /\ provider \in Providers
    /\ validators \in ValidatorLists
    /\ pc = "provider"
    /\ data = NilData
    /\ validated = <<>>
    /\ segments = <<>>
    /\ segIdx = 0
    /\ stdout = <<>>
    /\ writeCalls = <<>>
    /\ files = <<>>
    /\ result = Running
    /\ stages = <<>>
    /\ WriterIdle

\* return fmt.Errorf(...)
Return(r) ==
    /\ pc' = "done"
    /\ result' = r

\* data, err := inputProvider(); if err != nil { return ... }
GetInputData ==
    /\ pc = "provider"
    /\ stages' = Append(stages, "provider")
    /\ LET r == CallInputProvider(provider)
       IN  IF r.err # "none"
           THEN /\ Return(Result("failed to get input data", -1, <<>>, r.err, 0))
                /\ UNCHANGED data
           ELSE /\ data' = r.data
                /\ pc' = "validate"
                /\ UNCHANGED result
    /\ UNCHANGED fsVars
    /\ UNCHANGED <<parseVars, funcVars, mode, provider, validators, validated, segments,
                   segIdx, stdout, writeCalls, files>>

\* the validation loop with the validator's error dropped
RunValidator_ErrorIgnored ==
    /\ pc = "validate"
    /\ Len(validated) < Len(validators)
    /\ LET i == Len(validated) + 1
       IN  /\ stages' = Append(stages, "validator")
           /\ validated' = Append(validated, [validator |-> i, input |-> data,
                                              verdict |-> validators[i]])
    /\ UNCHANGED fsVars
    /\ UNCHANGED <<parseVars, funcVars, mode, provider, validators, data, segments,
                   segIdx, stdout, writeCalls, files, pc, result>>

\* one iteration of `for _, validateFunc := range validateInputFuncs`
RunValidator ==
    /\ pc = "validate"
    /\ Len(validated) < Len(validators)
    /\ LET i == Len(validated) + 1
       IN  /\ stages' = Append(stages, "validator")
           /\ validated' = Append(validated, [validator |-> i, input |-> data,
                                              verdict |-> validators[i]])
           /\ IF validators[i] = "fail"
              THEN Return(Result("input validation failed", -1, <<>>, "validator error", i))
              ELSE UNCHANGED <<pc, result>>
    /\ UNCHANGED fsVars
    /\ UNCHANGED <<parseVars, funcVars, mode, provider, validators, data, segments,
                   segIdx, stdout, writeCalls, files>>

\* ParseSegments called ahead of the validation loop
ParseStage_BeforeValidators ==
    /\ pc = "validate"
    /\ validated = <<>>
    /\ mode = "ExecuteWithFiles"
    /\ stages' = Append(stages, "parse")
    /\ LET r == ParseSegments(templ)
       IN  IF r.err # "none"
           THEN /\ Return(Result("failed to parse template segments", -1, <<>>, r.err, 0))
                /\ UNCHANGED <<segments, segIdx>>
           ELSE /\ segments' = r.segments
                /\ segIdx' = 0
                /\ UNCHANGED <<pc, result>>
    /\ UNCHANGED fsVars
    /\ UNCHANGED <<parseVars, funcVars, mode, provider, validators, data, validated,
                   stdout, writeCalls, files>>

\* ExecuteWithFiles: segments, err := ParseSegments(templ)
ParseStage ==
    /\ pc = "validate"
    /\ Len(validated) = Len(validators)
    /\ mode = "ExecuteWithFiles"
    /\ stages' = Append(stages, "parse")
    /\ LET r == ParseSegments(templ)
       IN  IF r.err # "none"
           THEN /\ Return(Result("failed to parse template segments", -1, <<>>, r.err, 0))
                /\ UNCHANGED <<segments, segIdx>>
           ELSE /\ segments' = r.segments
                /\ segIdx' = 0
                /\ pc' = "segments"
                /\ UNCHANGED result
    /\ UNCHANGED fsVars
    /\ UNCHANGED <<parseVars, funcVars, mode, provider, validators, data, validated,
                   stdout, writeCalls, files>>

\* after the last iteration of the range loop: return nil
AfterSegment(i) ==
    /\ segIdx' = i + 1
    /\ IF i + 1 = Len(segments) THEN Return(ReturnNil) ELSE UNCHANGED <<pc, result>>

\* case SegmentStdout with the rendered bytes put in front of the output
RenderStdoutSegment_Prepend(i, segment) ==
    LET r == renderSegment(segment.Content, data)
    IN  /\ stdout' = r.out \o stdout
        /\ UNCHANGED <<writeCalls, files>>
        /\ IF r.err # "none"
           THEN /\ Return(Result("failed to render stdout segment", i, <<>>, r.err, 0))
                /\ UNCHANGED segIdx
           ELSE AfterSegment(i)

\* case SegmentStdout: renderSegment(segment.Content, data, output)
RenderStdoutSegment(i, segment) ==
    LET r == renderSegment(segment.Content, data)
    IN  /\ stdout' = stdout \o r.out
        /\ UNCHANGED <<writeCalls, files>>
        /\ IF r.err # "none"
           THEN /\ Return(Result("failed to render stdout segment", i, <<>>, r.err, 0))
                /\ UNCHANGED segIdx
           ELSE AfterSegment(i)

\* the write skipped when the rendered content is empty
WriteRendered_SkipEmpty(i, filename, content) ==
    IF content = <<>>
    THEN /\ UNCHANGED <<writeCalls, files>>
         /\ AfterSegment(i)
    ELSE LET w == MemoryWriteFile(files, filename, content)
         IN  /\ writeCalls' = Append(writeCalls, [filename |-> filename, content |-> content])
             /\ files' = w.files
             /\ IF w.err # "none"
                THEN /\ Return(Result("failed to write file", -1, filename, w.err, 0))
                     /\ UNCHANGED segIdx
                ELSE AfterSegment(i)

\* fileWriter.WriteFile(filename, contentBuf.Bytes()), fileWriter being a
\* MemoryFileWriter
WriteRendered(i, filename, content) ==
    LET w == MemoryWriteFile(files, filename, content)
    IN  /\ writeCalls' = Append(writeCalls, [filename |-> filename, content |-> content])
        /\ files' = w.files
        /\ IF w.err # "none"
           THEN /\ Return(Result("failed to write file", -1, filename, w.err, 0))
                /\ UNCHANGED segIdx
           ELSE AfterSegment(i)

\* case SegmentFile with the error of the content rendering dropped
RenderFileSegment_ContentErrorIgnored(i, segment) ==
    LET fn == renderSegment(segment.Filename, data)
        ct == renderSegment(segment.Content, data)
    IN  /\ UNCHANGED stdout
        /\ IF fn.err # "none" THEN
               /\ Return(Result("failed to render filename template for segment",
                                i, <<>>, fn.err, 0))
               /\ UNCHANGED <<segIdx, writeCalls, files>>
           ELSE WriteRendered(i, fn.out, ct.out)

\* case SegmentFile: render the filename into filenameBuf, the content into
\* contentBuf, then write the file
RenderFileSegment(i, segment) ==
    LET fn == renderSegment(segment.Filename, data)
        ct == renderSegment(segment.Content, data)
    IN  /\ UNCHANGED stdout
        /\ IF fn.err # "none" THEN
               /\ Return(Result("failed to render filename template for segment",
                                i, <<>>, fn.err, 0))
               /\ UNCHANGED <<segIdx, writeCalls, files>>
           ELSE IF ct.err # "none" THEN
               /\ Return(Result("failed to render file content for", -1, fn.out,
                                ct.err, 0))
               /\ UNCHANGED <<segIdx, writeCalls, files>>
           ELSE WriteRendered(i, fn.out, ct.out)

\* ExecuteWithFiles: one iteration of `for i, segment := range segments`
ProcessSegment ==
    /\ pc = "segments"
    /\ segIdx < Len(segments)
    /\ stages' = Append(stages, "segment")
    /\ IF segments[segIdx + 1].Type = SegmentStdout
       THEN RenderStdoutSegment(segIdx, segments[segIdx + 1])
       ELSE RenderFileSegment(segIdx, segments[segIdx + 1])
    /\ UNCHANGED fsVars
    /\ UNCHANGED <<parseVars, funcVars, mode, provider, validators, data, validated, segments>>

\* Execute with the FILE directives of the template parsed first
RenderWhole_DirectivesParsed ==
    /\ pc = "validate"
    /\ Len(validated) = Len(validators)
    /\ mode = "Execute"
    /\ stages' = Append(stages, "render")
    /\ IF ParseSegments(templ).err # "none" \/ ~TemplateParses(templ, ExecuteFuncs)
       THEN /\ Return(Result("failed to parse template", -1, <<>>, "parse", 0))
            /\ UNCHANGED stdout
       ELSE LET r == TemplateExecute(templ, data)
            IN  /\ stdout' = stdout \o r.out
                /\ Return(IF r.err = "none" THEN ReturnNil
                          ELSE Result("execute", -1, <<>>, "none", 0))
    /\ UNCHANGED fsVars
    /\ UNCHANGED <<parseVars, funcVars, mode, provider, validators, data, validated,
                   segments, segIdx, writeCalls, files>>

\* Execute: template.New("generator").Funcs(...).Parse(string(templ)), then
\* return tmpl.Execute(output, data)
RenderWhole ==
    /\ pc = "validate"
    /\ Len(validated) = Len(validators)
    /\ mode = "Execute"
    /\ stages' = Append(stages, "render")
    /\ IF ~TemplateParses(templ, ExecuteFuncs)
       THEN /\ Return(Result("failed to parse template", -1, <<>>, "parse", 0))
            /\ UNCHANGED stdout
       ELSE LET r == TemplateExecute(templ, data)
            IN  /\ stdout' = stdout \o r.out
                /\ Return(IF r.err = "none" THEN ReturnNil
                          ELSE Result("execute", -1, <<>>, "none", 0))
    /\ UNCHANGED fsVars
    /\ UNCHANGED <<parseVars, funcVars, mode, provider, validators, data, validated,
                   segments, segIdx, writeCalls, files>>

Next ==
    \/ GetInputData
    \/ RunValidator
    \/ ParseStage
    \/ ProcessSegment
    \/ RenderWhole

Spec == Init /\ [][Next]_vars

-----------------------------------------------------------------------------
(* Inputs of the writer specifications *)

NameParts == {<<"a">>, DotDot, Dot, <<>>}
DirParts  == {<<"o">>, Dot, <<>>}

\* the "/"-joined lists of 1..n parts
PartStrings(parts, n) == {JoinElems(l) : l \in UNION {[1..k -> parts] : k \in 1..n}}

Names   == PartStrings(NameParts, MaxNameParts)
DirArgs == PartStrings(DirParts, MaxDirParts)

\* names used where calls follow each other or run side by side
SmallNames == {<<"f">>, <<"f", ".", "t", "m", "p">>, <<"d", "/", "f">>, <<"d">>}

ContentA == <<"A", "A">>
ContentB == <<"B", "B">>

WriteCall(n, c) == [filename |-> n, content |-> c]

\* one goroutine: a single call with any name, or two calls in a row
WriterCalls ==
    {<< <<WriteCall(n, ContentA)>> >> : n \in Names}
    \cup {<< <<WriteCall(n1, ContentA), WriteCall(n2, ContentB)>> >> :
                n1 \in SmallNames, n2 \in SmallNames}

\* two goroutines with one call each
RaceCalls ==
    {<< <<WriteCall(n1, ContentA)>>, <<WriteCall(n2, ContentB)>> >> :
        n1 \in SmallNames, n2 \in SmallNames}

-----------------------------------------------------------------------------
(* Specifications of the DefaultFileWriter: SetBaseDir, then WriteFile     *)
(* calls, each a sequence of system calls                                  *)

ProcIdle ==
    [pc |-> "idle", cur |-> 0, cleanFilename |-> <<>>, ino |-> 0, off |-> 0,
     before |-> Absent, rets |-> <<>>]

WriterStart ==
    /\ baseDir = <<>>
    /\ configured = "not called"
    /\ fs = <<>>
    /\ inodes = <<>>
    /\ proc = [p \in DOMAIN calls |-> ProcIdle]

InitWriter ==
    /\ templ = <<>>
    /\ parsed = NotParsed
    /\ parsedAgain = NotParsed
    /\ FuncIdle
    /\ PipelineIdle
    /\ dirArg \in DirArgs
    /\ calls \in WriterCalls
    /\ WriterStart

InitRace ==
    /\ templ = <<>>
    /\ parsed = NotParsed
    /\ parsedAgain = NotParsed
    /\ FuncIdle
    /\ PipelineIdle
    /\ dirArg \in {<<>>, <<"o">>}
    /\ calls \in RaceCalls
    /\ WriterStart

\* SetBaseDir that records the directory before it is known to be usable
SetBaseDirTo_AssignFirst(dir) ==
    IF dir = <<>>
    THEN /\ baseDir' = <<>>
         /\ configured' = "nil"
         /\ UNCHANGED fs
    ELSE LET cleanDir == Clean(dir)
             m        == MkdirAll(fs, cleanDir)
         IN  /\ baseDir' = cleanDir
             /\ IF m.err
                THEN /\ configured' = "failed to create output directory"
                     /\ UNCHANGED fs
                ELSE IF ~IsDir(m.fs, cleanDir)
                THEN /\ configured' = "output path is not a directory"
                     /\ fs' = m.fs
                ELSE /\ configured' = "nil"
                     /\ fs' = m.fs

\* the body of DefaultFileWriter.SetBaseDir(dir); configured is the error
\* returned
SetBaseDirTo(dir) ==
    IF dir = <<>>
    THEN /\ baseDir' = <<>>
         /\ configured' = "nil"
         /\ UNCHANGED fs
    ELSE LET cleanDir == Clean(dir)
             m        == MkdirAll(fs, cleanDir)
         IN  IF m.err
             THEN /\ configured' = "failed to create output directory"
                  /\ UNCHANGED <<baseDir, fs>>
             ELSE IF ~IsDir(m.fs, cleanDir)
             THEN /\ configured' = "output path is not a directory"
                  /\ fs' = m.fs
                  /\ UNCHANGED baseDir
             ELSE /\ configured' = "nil"
                  /\ fs' = m.fs
                  /\ baseDir' = cleanDir

\* DefaultFileWriter.SetBaseDir(dirArg)
SetBaseDir ==
    /\ configured = "not called"
    /\ SetBaseDirTo(dirArg)
    /\ UNCHANGED <<parseVars, funcVars, pipeVars, dirArg, calls, inodes, proc>>

\* the call in progress (or the last one made) by goroutine p
CurrentCall(p) == calls[p][proc[p].cur]

\* WriteFile returns e
ReturnFrom(ps, e) == [ps EXCEPT !.pc = "idle", !.rets = Append(@, e)]

\* the locals of goroutine p once cleanFilename is known
Entered(p, cleanFilename) ==
    [proc[p] EXCEPT !.cur = @ + 1, !.cleanFilename = cleanFilename, !.ino = 0, !.off = 0,
                    !.before = ReadFile(fs, inodes, cleanFilename)]

\* WriteFile after os.MkdirAll(dir, 0755) gave m
AfterMkdirAll(p, cleanFilename, m) ==
    IF m.err
    THEN /\ proc' = [proc EXCEPT ![p] =
                        ReturnFrom(Entered(p, cleanFilename), "failed to create directory")]
         /\ UNCHANGED fs
    ELSE /\ proc' = [proc EXCEPT ![p] = [Entered(p, cleanFilename) EXCEPT !.pc = "open"]]
         /\ fs' = m.fs

\* if dir != "" && dir != "." { os.MkdirAll(dir, 0755) }
CreateParents(p, cleanFilename, dir) ==
    IF dir # <<>> /\ dir # Dot
    THEN AfterMkdirAll(p, cleanFilename, MkdirAll(fs, dir))
    ELSE AfterMkdirAll(p, cleanFilename, [fs |-> fs, err |-> FALSE])

\* WriteFile after the checks on the name gave r
AfterResolve(p, r) ==
    IF r.err # "nil"
    THEN /\ proc' = [proc EXCEPT ![p] = ReturnFrom(Entered(p, <<>>), r.err)]
         /\ UNCHANGED fs
    ELSE CreateParents(p, r.cleanFilename, Dir(r.cleanFilename))

\* WriteFile, from entry to os.MkdirAll
BeginWriteFile(p) ==
    /\ configured # "not called"
    /\ proc[p].pc = "idle"
    /\ proc[p].cur < Len(calls[p])
    /\ AfterResolve(p, ResolvePath(baseDir, calls[p][proc[p].cur + 1].filename))
    /\ UNCHANGED <<parseVars, funcVars, pipeVars, dirArg, baseDir, configured, calls, inodes>>

\* os.WriteFile: OpenFile(tmpFile, O_WRONLY|O_CREATE|O_TRUNC, 0644)
OpenTmp(p) ==
    /\ proc[p].pc = "open"
    /\ LET tmpFile == TmpFile(proc[p].cleanFilename)
           ino     == IF IsFile(fs, tmpFile) THEN fs[tmpFile].ino
                      ELSE Cardinality(DOMAIN inodes) + 1
           next    == IF CurrentCall(p).content = <<>> THEN "rename" ELSE "write"
       IN  IF IsDir(fs, tmpFile)
           THEN /\ proc' = [proc EXCEPT ![p] = ReturnFrom(@, "failed to write file")]
                /\ UNCHANGED <<fs, inodes>>
           ELSE /\ fs' = MapPut(fs, tmpFile, FileNode(ino))
                /\ inodes' = MapPut(inodes, ino, <<>>)
                /\ proc' = [proc EXCEPT ![p].pc = next, ![p].ino = ino, ![p].off = 0]
    /\ UNCHANGED <<parseVars, funcVars, pipeVars, dirArg, baseDir, configured, calls>>

\* os.WriteFile: one write(2) on the open descriptor, or its failure
WriteTmp(p) ==
    /\ proc[p].pc = "write"
    /\ \/ LET ps      == proc[p]
              content == CurrentCall(p).content
          IN  /\ inodes' = [inodes EXCEPT ![ps.ino] =
                                WriteAt(@, ps.off, <<content[ps.off + 1]>>)]
              /\ proc' = [proc EXCEPT ![p].off = ps.off + 1,
                                      ![p].pc = IF ps.off + 1 = Len(content)
                                                THEN "rename" ELSE "write"]
       \/ /\ proc' = [proc EXCEPT ![p] = ReturnFrom(@, "failed to write file")]
          /\ UNCHANGED inodes
    /\ UNCHANGED <<parseVars, funcVars, pipeVars, dirArg, baseDir, configured, calls, fs>>

\* os.Rename(tmpFile, cleanFilename)
RenameTmp(p) ==
    /\ proc[p].pc = "rename"
    /\ LET cleanFilename == proc[p].cleanFilename
           tmpFile       == TmpFile(cleanFilename)
       IN  \/ /\ IsFile(fs, tmpFile)
              /\ ~IsDir(fs, cleanFilename)
              /\ fs' = MapPut(MapRemove(fs, tmpFile), cleanFilename, fs[tmpFile])
              /\ proc' = [proc EXCEPT ![p] = ReturnFrom(@, "nil")]
           \/ /\ proc' = [proc EXCEPT ![p].pc = "remove"]
              /\ UNCHANGED fs
    /\ UNCHANGED <<parseVars, funcVars, pipeVars, dirArg, baseDir, configured, calls, inodes>>

\* the return of the rename error without os.Remove(tmpFile)
RemoveTmp_KeepsTmp(p) ==
    /\ proc[p].pc = "remove"
    /\ UNCHANGED fs
    /\ proc' = [proc EXCEPT ![p] = ReturnFrom(@, "failed to rename temp file")]
    /\ UNCHANGED <<parseVars, funcVars, pipeVars, dirArg, baseDir, configured, calls, inodes>>

\* os.Remove(tmpFile) and the return of the rename error
RemoveTmp(p) ==
    /\ proc[p].pc = "remove"
    /\ LET tmpFile == TmpFile(proc[p].cleanFilename)
       IN  fs' = IF IsFile(fs, tmpFile) THEN MapRemove(fs, tmpFile) ELSE fs
    /\ proc' = [proc EXCEPT ![p] = ReturnFrom(@, "failed to rename temp file")]
    /\ UNCHANGED <<parseVars, funcVars, pipeVars, dirArg, baseDir, configured, calls, inodes>>

NextWriter ==
    \/ SetBaseDir
    \/ \E p \in DOMAIN calls : BeginWriteFile(p)
    \/ \E p \in DOMAIN calls : OpenTmp(p)
    \/ \E p \in DOMAIN calls : WriteTmp(p)
    \/ \E p \in DOMAIN calls : RenameTmp(p)
    \/ \E p \in DOMAIN calls : RemoveTmp(p)

\* one goroutine using the writer
SpecWriter == InitWriter /\ [][NextWriter]_vars

\* two goroutines using the same writer
SpecRace == InitRace /\ [][NextWriter]_vars

-----------------------------------------------------------------------------
(* Specification of SetBaseDir: a DefaultFileWriter that is configured,     *)
(* writes one file and is configured again, any number of times             *)

BaseDirNames == {<<"o">>, <<"f">>}

InitBaseDir ==
    /\ templ = <<>>
    /\ parsed = NotParsed
    /\ parsedAgain = NotParsed
    /\ FuncIdle
    /\ PipelineIdle
    /\ dirArg \in DirArgs
    /\ calls \in {<< <<WriteCall(n, ContentA)>> >> : n \in BaseDirNames}
    /\ WriterStart

\* a further DefaultFileWriter.SetBaseDir(dir), between WriteFile calls
SetBaseDirAgain ==
    /\ configured # "not called"
    /\ \A p \in DOMAIN calls : proc[p].pc = "idle"
    /\ \E dir \in DirArgs :
          /\ dirArg' = dir
          /\ SetBaseDirTo(dir)
    /\ UNCHANGED <<parseVars, funcVars, pipeVars, calls, inodes, proc>>

NextBaseDir ==
    \/ NextWriter
    \/ SetBaseDirAgain

SpecBaseDir == InitBaseDir /\ [][NextBaseDir]_vars

-----------------------------------------------------------------------------
(* Specification of the two sinks: a DefaultFileWriter as above, or a       *)
(* MemoryFileWriter on which SetBaseDir may be called and WriteFile is      *)
(* called up to MaxMemoryCalls times                                        *)

\* &MemoryFileWriter{}
InitMemory ==
    /\ templ = <<>>
    /\ parsed = NotParsed
    /\ parsedAgain = NotParsed
    /\ FuncIdle
    /\ PipelineIdle
    /\ dirArg \in DirArgs \cup {<<>>}
    /\ baseDir = <<>>
    /\ configured = "memory: not called"
    /\ calls = <<>>
    /\ fs = <<>>
    /\ inodes = <<>>
    /\ proc = <<>>

\* MemoryFileWriter.SetBaseDir(dirArg)
MemorySetBaseDir ==
    /\ configured = "memory: not called"
    /\ baseDir' = Clean(dirArg)
    /\ configured' = "memory: nil"
    /\ UNCHANGED <<parseVars, funcVars, pipeVars, dirArg, calls, fs, inodes, proc>>

\* the names given to the next call: any name first, then the names that
\* can meet an earlier one
MemoryNames == (IF writeCalls = <<>> THEN Names ELSE SmallNames) \cup {<<>>}

\* MemoryFileWriter.WriteFile(filename, content); the call is recorded with
\* the error it returned
MemoryWrite ==
    /\ configured \in {"memory: not called", "memory: nil"}
    /\ Len(writeCalls) < MaxMemoryCalls
    /\ \E filename \in MemoryNames :
         LET content == IF writeCalls = <<>> THEN ContentA ELSE ContentB
             w       == MemoryWriteFileIn(baseDir, files, filename, content)
         IN  /\ files' = w.files
             /\ writeCalls' = Append(writeCalls, [filename |-> filename,
                                                  content |-> content, ret |-> w.err])
    /\ UNCHANGED fsVars
    /\ UNCHANGED <<parseVars, funcVars, mode, provider, validators, pc, data, validated,
                   segments, segIdx, stdout, result, stages>>

NextMemory ==
    \/ MemorySetBaseDir
    \/ MemoryWrite

InitSinks == InitWriter \/ InitMemory

NextSinks ==
    \/ NextWriter
    \/ NextMemory

SpecSinks == InitSinks /\ [][NextSinks]_vars

-----------------------------------------------------------------------------
(* Properties of the pipeline, checked under Spec *)

Done == pc = "done"

InStages(name) == \E k \in 1..Len(stages) : stages[k] = name

ProviderFails == CallInputProvider(provider).err # "none"
SomeValidatorFails == \E k \in 1..Len(validators) : validators[k] = "fail"
DirectivesMalformed == ParseSegments(templ).err # "none"

StageRank(name) ==
    CASE name = "provider"  -> 1
      [] name = "validator" -> 2
      [] name = "parse"     -> 3
      [] OTHER              -> 4

\* C1: ExecuteWithFiles runs input provider, validators, segment parse and
\* segment render/write in that order, each stage only after the previous
\* one succeeded; the error returned is that of the earliest failing stage;
\* a parse error comes back with nothing written to the default sink and no
\* WriteFile call made.
C1_FailFastOrder ==
    mode = "ExecuteWithFiles" =>
        /\ \A j \in 1..Len(stages) : \A k \in j..Len(stages) :
                StageRank(stages[j]) <= StageRank(stages[k])
        /\ InStages("validator") => ~ProviderFails
        /\ InStages("parse") => (~ProviderFails /\ ~SomeValidatorFails)
        /\ InStages("segment") =>
                (~ProviderFails /\ ~SomeValidatorFails /\ ~DirectivesMalformed)
        /\ Done =>
                IF ProviderFails THEN result.err = "failed to get input data"
                ELSE IF SomeValidatorFails THEN result.err = "input validation failed"
                ELSE IF DirectivesMalformed
                     THEN /\ result.err = "failed to parse template segments"
                          /\ result.wrapped = ParseSegments(templ).err
                ELSE result.err \notin {"failed to get input data",
                                        "input validation failed",
                                        "failed to parse template segments"}
        /\ (Done /\ result.err = "failed to parse template segments") =>
                (stdout = <<>> /\ writeCalls = <<>> /\ files = <<>>)

\* invalid data together with a malformed directive came back as a
\* validation error
C1_Witness ==
    /\ mode = "ExecuteWithFiles"
    /\ Done
    /\ SomeValidatorFails
    /\ DirectivesMalformed
    /\ result.err = "input validation failed"

\* a parse error was returned by ExecuteWithFiles after all validators passed
C1_WitnessParseError ==
    /\ mode = "ExecuteWithFiles"
    /\ Done
    /\ Len(validated) = 2
    /\ result.err = "failed to parse template segments"

\* C9: when the input provider returns an error, or a nil value without an
\* error, Execute and ExecuteWithFiles return an input-acquisition error
\* before any validator is invoked and before anything is parsed, rendered
\* or written.
C9_NilOrErrorAborts ==
    LET p == CallInputProvider(provider)
    IN  (mode # "none" /\ (p.err # "none" \/ p.data.isNil)) =>
            /\ validated = <<>>
            /\ stages \in {<<>>, <<"provider">>}
            /\ stdout = <<>>
            /\ writeCalls = <<>>
            /\ Done => result.err = "failed to get input data"

\* C10: validators are invoked in registration order on the value the
\* provider returned; once one fails no later validator is invoked, the
\* pipeline returns a validation error wrapping that validator's error, no
\* segment is rendered, nothing reaches the default sink and no WriteFile
\* call is made.
C10_ValidatorsInOrder ==
    mode # "none" =>
        /\ \A k \in 1..Len(validated) :
                /\ validated[k].validator = k
                /\ validated[k].verdict = validators[k]
                /\ validated[k].input = CallInputProvider(provider).data
                /\ k < Len(validated) => validated[k].verdict = "pass"
        /\ (validated # <<>> /\ validated[Len(validated)].verdict = "fail") =>
                /\ Done
                /\ result = Result("input validation failed", -1, <<>>,
                                   "validator error", Len(validated))
                /\ ~InStages("parse") /\ ~InStages("segment") /\ ~InStages("render")
                /\ segments = <<>>
                /\ stdout = <<>>
                /\ writeCalls = <<>>
                /\ files = <<>>

\* the first of two validators failed on a template that holds a well-formed
\* directive and text
C10_Witness ==
    /\ mode = "ExecuteWithFiles"
    /\ Done
    /\ Len(validators) = 2
    /\ Len(validated) = 1
    /\ validated[1].verdict = "fail"
    /\ ~DirectivesMalformed
    /\ Len(ParseSegments(templ).segments) = 2

\* the segments ExecuteWithFiles works on: those ParseSegments gives for templ
SegmentsOf(t) == ParseSegments(t).segments

\* the subsequence of the segments of one type
RECURSIVE OfType(_, _)
OfType(segs, type) ==
    IF segs = <<>> THEN <<>>
    ELSE IF Head(segs).Type = type THEN <<Head(segs)>> \o OfType(Tail(segs), type)
    ELSE OfType(Tail(segs), type)

\* the renderings of the contents of a list of segments, one after the other
RECURSIVE Renderings(_, _)
Renderings(segs, d) ==
    IF segs = <<>> THEN <<>>
    ELSE renderSegment(Head(segs).Content, d).out \o Renderings(Tail(segs), d)

Succeeded == Done /\ mode = "ExecuteWithFiles" /\ result = ReturnNil

\* C11: when ExecuteWithFiles has returned nil, the bytes received by the
\* output writer are the renderings of the SegmentStdout segments of the
\* template, concatenated in source order; SegmentFile segments add no byte.
C11_StdoutIsConcatenation ==
    Succeeded => stdout = Renderings(OfType(SegmentsOf(templ), SegmentStdout), data)

\* a successful run over stdout, file, stdout segments whose two stdout
\* renderings differ
C11_Witness ==
    /\ Succeeded
    /\ Len(segments) = 3
    /\ segments[1].Type = SegmentStdout
    /\ segments[2].Type = SegmentFile
    /\ segments[3].Type = SegmentStdout
    /\ renderSegment(segments[1].Content, data).out # <<>>
    /\ renderSegment(segments[3].Content, data).out # <<>>
    /\ renderSegment(segments[1].Content, data).out
            # renderSegment(segments[3].Content, data).out
    /\ renderSegment(segments[2].Content, data).out # <<>>
    /\ Len(writeCalls) = 1

\* a is b[:len(a)]
IsPrefix(a, b) == Len(a) <= Len(b) /\ a = SubSeq(b, 1, Len(a))

\* the (rendered name, rendered content) pairs of a list of segments
RECURSIVE RenderedFiles(_, _)
RenderedFiles(segs, d) ==
    IF segs = <<>> THEN <<>>
    ELSE << [filename |-> renderSegment(Head(segs).Filename, d).out,
             content  |-> renderSegment(Head(segs).Content, d).out] >>
         \o RenderedFiles(Tail(segs), d)

\* C12: the WriteFile calls made by ExecuteWithFiles are, at any moment, the
\* (rendered name, rendered content) pairs of the first SegmentFile segments
\* of the template, one call per segment in source order, and on a nil return
\* those of all of them, empty bodies included; a content rendering error
\* carries the name already rendered for that segment.
C12_OneWritePerFileSegment ==
    mode = "ExecuteWithFiles" =>
        /\ IsPrefix(writeCalls, RenderedFiles(OfType(SegmentsOf(templ), SegmentFile), data))
        /\ Succeeded =>
              writeCalls = RenderedFiles(OfType(SegmentsOf(templ), SegmentFile), data)
        /\ (Done /\ result.err = "failed to render file content for") =>
              /\ segments[segIdx + 1].Type = SegmentFile
              /\ renderSegment(segments[segIdx + 1].Filename, data).err = "none"
              /\ result.name = renderSegment(segments[segIdx + 1].Filename, data).out

\* a successful run over two SegmentFile segments, the second with an empty
\* body, that made two different WriteFile calls
C12_Witness ==
    /\ Succeeded
    /\ Len(segments) = 2
    /\ segments[1].Type = SegmentFile
    /\ segments[2].Type = SegmentFile
    /\ segments[2].Content = <<>>
    /\ Len(writeCalls) = 2
    /\ writeCalls[1] # writeCalls[2]
    /\ writeCalls[2].content = <<>>

\* the segment cannot be processed: a template of it does not render, or the
\* MemoryFileWriter refuses the rendered name
NameFails(seg, d)    == seg.Type = SegmentFile /\ renderSegment(seg.Filename, d).err # "none"
ContentFails(seg, d) == renderSegment(seg.Content, d).err # "none"
WriteFails(seg, d)   ==
    /\ seg.Type = SegmentFile
    /\ ~NameFails(seg, d)
    /\ ~ContentFails(seg, d)
    /\ renderSegment(seg.Filename, d).out = <<>>
SegmentFails(seg, d) == NameFails(seg, d) \/ ContentFails(seg, d) \/ WriteFails(seg, d)

\* indices (1-based) of the segments that cannot be processed
Failing(segs, d) == {k \in 1..Len(segs) : SegmentFails(segs[k], d)}

\* the map a MemoryFileWriter holds after a sequence of accepted calls: each
\* name written, with the content of the last call that names it
EndsWith(cs, name) == cs # <<>> /\ cs[Len(cs)].filename = name
RECURSIVE LastWrite(_, _)
LastWrite(cs, name) ==
    IF EndsWith(cs, name) THEN cs[Len(cs)].content
    ELSE LastWrite(SubSeq(cs, 1, Len(cs) - 1), name)
FilesAfter(cs) ==
    [name \in {cs[i].filename : i \in 1..Len(cs)} |-> LastWrite(cs, name)]

\* the range loop of ExecuteWithFiles has been entered and has returned
LoopReturned == Done /\ mode = "ExecuteWithFiles" /\ InStages("segment")

C13_WitnessName == LoopReturned /\ Len(writeCalls) = 1 /\
                   result.err = "failed to render filename template for segment"
C13_WitnessWrite == LoopReturned /\ Len(writeCalls) = 2 /\ result.err = "failed to write file"

-----------------------------------------------------------------------------
(* Properties of the DefaultFileWriter, checked under SpecWriter / SpecRace *)

Goroutines == DOMAIN calls

\* the calls of goroutine p that have returned
Returned(p) == 1..Len(proc[p].rets)

\* the files of the tree
FilesOf(tree) == {path \in DOMAIN tree : tree[path].kind = "file"}

\* path lies strictly below the directory base (both cleaned)
IsWithin(base, path) ==
    LET b == IF base = Dot THEN <<>> ELSE SplitPath(base)
        t == SplitPath(path)
    IN  /\ (base # Dot /\ IsRooted(base)) = IsRooted(path)
        /\ Len(t) > Len(b)
        /\ SubSeq(t, 1, Len(b)) = b
        /\ \A k \in 1..Len(t) : t[k] # DotDot /\ t[k] # Dot

\* C5: a destination name that contains `..` is rejected by WriteFile with
\* the path-traversal error, with or without a base directory and whatever
\* the name would normalize to; such a call creates no file and no directory.
C5_DotDotRejected ==
    \A p \in Goroutines :
        /\ \A i \in Returned(p) :
                Contains(calls[p][i].filename, <<".", ".">>) =>
                    proc[p].rets[i] = "path traversal not allowed in filename"
        /\ (\A i \in 1..Len(calls[p]) : Contains(calls[p][i].filename, <<".", ".">>)) =>
                (FilesOf(fs) = {} /\ DOMAIN fs \subseteq Ancestors(Clean(dirArg)))

\* with a base directory set, a name that normalizes to a path inside the
\* base directory was rejected for holding `..`
C5_Witness ==
    /\ baseDir = <<"o">>
    /\ calls[1][1].filename = <<"a", "/", ".", ".", "/", "a">>
    /\ IsWithin(baseDir, Join(baseDir, calls[1][1].filename))
    /\ proc[1].rets = <<"path traversal not allowed in filename">>

\* C6: with a base directory set, every WriteFile call that returns nil, for
\* relative, nested and absolute names alike, has left a file with the bytes
\* written at a normalized path inside the base directory.
C6_WritesInsideBase ==
    \A p \in Goroutines :
        (/\ baseDir # <<>>
         /\ proc[p].pc = "idle"
         /\ proc[p].rets # <<>>
         /\ proc[p].rets[Len(proc[p].rets)] = "nil") =>
            /\ IsWithin(baseDir, proc[p].cleanFilename)
            /\ ReadFile(fs, inodes, proc[p].cleanFilename) =
                    [exists |-> TRUE, content |-> CurrentCall(p).content]
            /\ \A path \in FilesOf(fs) :
                    inodes[fs[path].ino] = CurrentCall(p).content => IsWithin(baseDir, path)

\* an absolute name was written below a rooted base directory
C6_Witness ==
    /\ baseDir = <<"/", "o">>
    /\ calls[1][1].filename = <<"/", "a", "/", "a">>
    /\ proc[1].rets = <<"nil">>
    /\ ReadFile(fs, inodes, <<"/", "o", "/", "a", "/", "a">>).exists

\* C7: during and after a WriteFile call made while no other call runs, the
\* final path reads as it did before the call (or is absent as before) or
\* reads the complete new content, also when the call fails while writing
\* the temporary file or while renaming.
C7_AtomicWrite ==
    \A p \in Goroutines :
        (proc[p].cur > 0 /\ proc[p].cleanFilename # <<>>) =>
            ReadFile(fs, inodes, proc[p].cleanFilename) \in
                {proc[p].before, [exists |-> TRUE, content |-> CurrentCall(p).content]}

\* a second write to a name failed in the middle of writing the temporary
\* file and the final path still reads the first write
C7_Witness ==
    /\ Len(calls[1]) = 2
    /\ calls[1][1].filename = calls[1][2].filename
    /\ proc[1].rets = <<"nil", "failed to write file">>
    /\ proc[1].off = 1
    /\ ReadFile(fs, inodes, proc[1].cleanFilename) = [exists |-> TRUE, content |-> ContentA]

\* C8: when two WriteFile calls for the same destination name run
\* concurrently, the final path never holds anything but the complete bytes
\* of one of the two writes.
C8_RaceCompleteContent ==
    \A p \in Goroutines : \A q \in Goroutines :
        (/\ p # q
         /\ calls[p][1].filename = calls[q][1].filename
         /\ proc[p].cleanFilename # <<>>) =>
            LET r == ReadFile(fs, inodes, proc[p].cleanFilename)
            IN  r.exists => r.content \in {calls[p][1].content, calls[q][1].content}

\* the path the k-th call of goroutine p resolves to
PathOfCall(p, k) == ResolvePath(baseDir, calls[p][k].filename).cleanFilename

\* the calls of goroutine p that returned nil
Successful(p) == {k \in Returned(p) : proc[p].rets[k] = "nil"}

\* the last successful call of goroutine p that wrote the path of its k-th call
LastTo(p, k) ==
    CHOOSE j \in Successful(p) :
        /\ PathOfCall(p, j) = PathOfCall(p, k)
        /\ \A l \in Successful(p) : PathOfCall(p, l) = PathOfCall(p, k) => l <= j

\* C14: last write wins: after any sequence of successful WriteFile calls on
\* a DefaultFileWriter, every destination written holds exactly the bytes of
\* the most recent write to it.
C14_LastWriteWins ==
    \A p \in Goroutines :
        (proc[p].pc = "idle" /\ Successful(p) = Returned(p)) =>
            \A k \in Successful(p) :
                ReadFile(fs, inodes, PathOfCall(p, k)) =
                    [exists |-> TRUE, content |-> calls[p][LastTo(p, k)].content]

\* ExecuteWithFiles with a MemoryFileWriter: the writer holds, for every name
\* written, the content of the last WriteFile call that names it
C14_MemoryLastWriteWins ==
    Succeeded => files = FilesAfter(writeCalls)

\* two file blocks with the same rendered name and different bodies
C14_MemoryWitness ==
    /\ Succeeded
    /\ Len(writeCalls) = 2
    /\ writeCalls[1].filename = writeCalls[2].filename
    /\ writeCalls[1].content # writeCalls[2].content

-----------------------------------------------------------------------------
(* Properties of ParseSegments, checked under SpecParse *)

HasMarker(t) == Contains(t, fileOpenPrefix) \/ Contains(t, fileClose)

Parsed == parsed # NotParsed

\* C2 as stated: a template without any marker parses to exactly one
\* DefaultSink segment whose content is the input, byte for byte
\* (whitespace-only templates included).
C2_NoMarkerVerbatim ==
    (Parsed /\ ~HasMarker(templ)) => parsed = ParseOk(<<StdoutSegment(templ)>>)

\* C2 amended: a template without any marker parses to exactly one
\* DefaultSink segment; its content is the input, byte for byte, unless the
\* input is empty or whitespace-only, and then the content is empty.
C2_NoMarkerOneSegment ==
    (Parsed /\ ~HasMarker(templ)) =>
        /\ parsed.err = "none"
        /\ ~parsed.isNil
        /\ Len(parsed.segments) = 1
        /\ parsed.segments[1].Type = SegmentStdout
        /\ parsed.segments[1].Content = IF IsBlank(templ) THEN <<>> ELSE templ

\* a marker-free template holding '#', a space and a non-space byte was parsed
C2_Witness ==
    /\ Parsed
    /\ ~HasMarker(templ)
    /\ ~IsBlank(templ)
    /\ Contains(templ, <<"#">>)
    /\ Contains(templ, <<" ">>)

\* a whitespace-only template was parsed
C2_WitnessBlank == Parsed /\ templ # <<>> /\ IsBlank(templ)

\* The offsets k of a '#' at which t reads #FILE:<n>#<body>#FILE# with
\* <n> = t[6:k] and <body> = t[k+1:len(t)-6].
DirectiveSplits(t) ==
    {k \in 0..Len(t) :
        /\ MatchAt(t, 0, fileOpenPrefix)
        /\ k >= Len(fileOpenPrefix)
        /\ MatchAt(t, k, fileOpenSuffix)
        /\ k + 1 + Len(fileClose) <= Len(t)
        /\ MatchAt(t, Len(t) - Len(fileClose), fileClose)}

NameOf(t, k) == Slice(t, Len(fileOpenPrefix), k)
BodyOf(t, k) == Slice(t, k + 1, Len(t) - Len(fileClose))

HasSuffix(s, suf) == Len(suf) <= Len(s) /\ MatchAt(s, Len(s) - Len(suf), suf)

\* the hypothesis of C3 on <n> and <body>
C3_Form(n, body) ==
    /\ ~Contains(n, fileOpenPrefix)
    /\ ~IsBlank(n)
    /\ ~HasMarker(body)

\* C3 as stated: for every reading of the template as #FILE:<n>#<body>#FILE#
\* with <n> free of `#FILE:` and not blank, and <body> free of markers, the
\* result is exactly one NamedFile segment with name <n> and content <body>.
C3_SingleDirective ==
    Parsed =>
        \A k \in DirectiveSplits(templ) :
            C3_Form(NameOf(templ, k), BodyOf(templ, k)) =>
                parsed = ParseOk(<<FileSegment(NameOf(templ, k), BodyOf(templ, k))>>)

\* the hypothesis of C3 as amended
C3_FormAmended(n, body) ==
    /\ C3_Form(n, body)
    /\ ~Contains(n, fileOpenSuffix)
    /\ ~HasSuffix(body, <<"#", "F", "I", "L", "E">>)

\* C3 amended: the same, for <n> that holds no `#` byte at all and <body>
\* that does not end in `#FILE` (name and content are still not trimmed).
C3_SingleDirectiveAmended ==
    Parsed =>
        \A k \in DirectiveSplits(templ) :
            C3_FormAmended(NameOf(templ, k), BodyOf(templ, k)) =>
                parsed = ParseOk(<<FileSegment(NameOf(templ, k), BodyOf(templ, k))>>)

\* a single directive with a whitespace-only body was parsed
C3_Witness ==
    /\ Parsed
    /\ \E k \in DirectiveSplits(templ) :
            /\ C3_FormAmended(NameOf(templ, k), BodyOf(templ, k))
            /\ BodyOf(templ, k) # <<>>
            /\ IsBlank(BodyOf(templ, k))

\* the source span of one segment, markers re-inserted for a NamedFile
SegmentSpan(seg) ==
    IF seg.Type = SegmentFile
    THEN fileOpenPrefix \o seg.Filename \o fileOpenSuffix \o seg.Content \o fileClose
    ELSE seg.Content

RECURSIVE Reconstruct(_)
Reconstruct(segs) ==
    IF segs = <<>> THEN <<>>
    ELSE SegmentSpan(Head(segs)) \o Reconstruct(Tail(segs))

\* C4 as stated: whenever ParseSegments succeeds, the spans of the returned
\* segments, concatenated in order, are the template byte for byte.
C4_RoundTrip ==
    (Parsed /\ parsed.err = "none") => Reconstruct(parsed.segments) = templ

OnlyEmptySegment(segs) == segs = <<StdoutSegment(<<>>)>>

\* C4 amended: whenever ParseSegments succeeds, the template is the
\* concatenated spans of the returned segments between a whitespace-only
\* prefix and a whitespace-only suffix; the prefix (suffix) is non-empty only
\* if the result starts (ends) with a NamedFile segment or is the single
\* empty DefaultSink segment.
C4_RoundTripUpToEdges ==
    (Parsed /\ parsed.err = "none") =>
        LET segs == parsed.segments
            r    == Reconstruct(segs)
            n    == Len(templ)
        IN  \E i \in 0..n : \E j \in 0..(n - i) :
                /\ IsBlank(Slice(templ, 0, i))
                /\ IsBlank(Slice(templ, n - j, n))
                /\ Slice(templ, i, n - j) = r
                /\ i > 0 => (OnlyEmptySegment(segs) \/ segs[1].Type = SegmentFile)
                /\ j > 0 => (OnlyEmptySegment(segs) \/ segs[Len(segs)].Type = SegmentFile)

\* a template with a directive and a dropped whitespace edge was parsed
C4_Witness ==
    /\ Parsed
    /\ parsed.err = "none"
    /\ \E i \in 1..Len(parsed.segments) : parsed.segments[i].Type = SegmentFile
    /\ Reconstruct(parsed.segments) # templ

-----------------------------------------------------------------------------
(* Execute against ExecuteWithFiles *)

\* the provider and every validator accept: the run reaches the template
InputAccepted ==
    /\ CallInputProvider(provider).err = "none"
    /\ \A i \in 1..Len(validators) : validators[i] = "pass"

\* C15: on a template without any FILE marker, ExecuteWithFiles behaves as
\* Execute does on the same provider, validators and template: it returns nil
\* in the same cases, leaves the same bytes in the output writer and calls
\* WriteFile never.  (What Execute does is the rendering of the whole
\* template; the first conjunct holds Execute to that.)
C15_SameAsExecute ==
    (Done /\ ~HasMarker(templ)) =>
        LET whole == renderSegment(templ, CallInputProvider(provider).data)
        IN  /\ (result = ReturnNil) <=> (InputAccepted /\ whole.err = "none")
            /\ stdout = IF InputAccepted THEN whole.out ELSE <<>>
            /\ writeCalls = <<>>

\* C16: Execute renders the template as one piece into the output writer:
\* it never parses segments and never calls a file writer; the bytes written
\* and the verdict are those of rendering the whole template, so a template
\* without template actions comes out byte for byte, FILE markers and
\* surrounding whitespace included.
C16_ExecuteWholeTemplate ==
    mode = "Execute" =>
        /\ writeCalls = <<>>
        /\ files = <<>>
        /\ segments = <<>>
        /\ ~InStages("parse")
        /\ ~InStages("segment")
        /\ (Done /\ InStages("render")) =>
              /\ stdout = renderSegment(templ, data).out
              /\ (result = ReturnNil) <=> (renderSegment(templ, data).err = "none")
              /\ ~Contains(templ, leftDelim) => (stdout = templ /\ result = ReturnNil)

\* Execute has copied out a template that holds a FILE block and ends in
\* whitespace
C16_Witness ==
    /\ mode = "Execute"
    /\ Done
    /\ result = ReturnNil
    /\ Contains(templ, fileOpenPrefix)
    /\ Contains(templ, fileClose)
    /\ templ[Len(templ)] = " "
    /\ stdout = templ

\* Execute has copied out a template whose markers ParseSegments rejects
C16_WitnessMalformed ==
    /\ mode = "Execute"
    /\ Done
    /\ result = ReturnNil
    /\ ParseSegments(templ).err # "none"
    /\ stdout = templ

-----------------------------------------------------------------------------
(* The scanner's error paths *)

\* the states in which the for-loop of ParseSegments is entered on t
RECURSIVE LoopHeads(_, _)
LoopHeads(t, st) ==
    IF st.status = "scan" /\ st.pos < Len(t)
    THEN {st} \cup LoopHeads(t, ScanStep(t, st))
    ELSE {}

\* the states right after an opening marker was accepted: fileBlockStart is
\* the offset of its #FILE: prefix, pos the offset just after its closing #
RECURSIVE Opened(_, _)
Opened(t, st) ==
    IF st.status = "scan" /\ st.pos < Len(t)
    THEN LET nx == ScanStep(t, st)
         IN  (IF ~st.inFileBlock /\ nx.inFileBlock /\ nx.status = "scan"
              THEN {nx} ELSE {}) \cup Opened(t, nx)
    ELSE {}

\* C17 as stated: an opening marker accepted while Outside with no closing
\* marker anywhere after it makes ParseSegments fail with the
\* unclosed-directive error at the offset of the marker's #FILE: prefix.
C17_UnclosedDirective ==
    Parsed =>
        \A o \in Opened(templ, ScanInit) :
            ~Contains(SliceFrom(templ, o.pos), fileClose) =>
                parsed = ParseErr("unclosed", o.fileBlockStart)

\* C17 amended: an opening marker accepted while Outside with neither a
\* closing marker nor another opening prefix anywhere after it makes
\* ParseSegments fail with the unclosed-directive error at the offset of the
\* marker's #FILE: prefix, also when the marker ends the template.
C17_UnclosedDirectiveAmended ==
    Parsed =>
        \A o \in Opened(templ, ScanInit) :
            (/\ ~Contains(SliceFrom(templ, o.pos), fileClose)
             /\ ~Contains(SliceFrom(templ, o.pos), fileOpenPrefix)) =>
                parsed = ParseErr("unclosed", o.fileBlockStart)

\* an opening marker that ends the template, after leading text: the error
\* names the marker's offset, not 0
C17_Witness ==
    /\ Parsed
    /\ \E o \in Opened(templ, ScanInit) :
          /\ o.pos = Len(templ)
          /\ o.fileBlockStart > 0
          /\ Len(o.segments) >= 2
          /\ parsed = ParseErr("unclosed", o.fileBlockStart)

\* an opening marker followed by text and no marker at all
C17_WitnessText ==
    /\ Parsed
    /\ \E o \in Opened(templ, ScanInit) :
          /\ o.pos < Len(templ)
          /\ ~HasMarker(SliceFrom(templ, o.pos))
          /\ parsed = ParseErr("unclosed", o.fileBlockStart)

\* the offsets of the next opening prefix and the next closing marker seen
\* from a loop head, -1 when there is none
NextOpen(t, st)  == Index(SliceFrom(t, st.pos), fileOpenPrefix)
NextClose(t, st) == Index(SliceFrom(t, st.pos), fileClose)

\* C18: whenever the scanner is inside a file block and an opening prefix
\* comes before the next closing marker, or comes with no closing marker
\* left, ParseSegments fails with the nested-directive error at the absolute
\* offset of that inner prefix.
C18_NestedDirective ==
    Parsed =>
        \A st \in LoopHeads(templ, ScanInit) :
            (/\ st.inFileBlock
             /\ NextOpen(templ, st) # -1
             /\ (NextClose(templ, st) = -1 \/ NextOpen(templ, st) < NextClose(templ, st))) =>
                /\ parsed = ParseErr("nested", st.pos + NextOpen(templ, st))
                /\ MatchAt(templ, parsed.offset, fileOpenPrefix)
                /\ parsed.offset > st.fileBlockStart

\* an inner opening prefix with no closing marker after it, in a block that
\* has some content before the prefix
C18_Witness ==
    /\ Parsed
    /\ \E st \in LoopHeads(templ, ScanInit) :
          /\ st.inFileBlock
          /\ NextOpen(templ, st) > 0
          /\ NextClose(templ, st) = -1
          /\ parsed = ParseErr("nested", st.pos + NextOpen(templ, st))

\* an inner opening prefix ahead of a closing marker
C18_WitnessBeforeClose ==
    /\ Parsed
    /\ \E st \in LoopHeads(templ, ScanInit) :
          /\ st.inFileBlock
          /\ NextOpen(templ, st) # -1
          /\ NextClose(templ, st) > NextOpen(templ, st)
          /\ parsed = ParseErr("nested", st.pos + NextOpen(templ, st))

\* C19: whenever the scanner is outside any file block and a closing marker
\* comes with no opening prefix left, or before the next opening prefix,
\* ParseSegments fails with the unexpected-closing-marker error at the
\* absolute offset of that closing marker, also after a block that was closed.
C19_UnexpectedClose ==
    Parsed =>
        \A st \in LoopHeads(templ, ScanInit) :
            (/\ ~st.inFileBlock
             /\ NextClose(templ, st) # -1
             /\ (NextOpen(templ, st) = -1 \/ NextClose(templ, st) < NextOpen(templ, st))) =>
                /\ parsed = ParseErr("unexpectedClose", st.pos + NextClose(templ, st))
                /\ MatchAt(templ, parsed.offset, fileClose)

\* a second closing marker right after a block that was closed
C19_Witness ==
    /\ Parsed
    /\ \E st \in LoopHeads(templ, ScanInit) :
          /\ ~st.inFileBlock
          /\ st.pos > 0
          /\ Len(st.segments) = 1
          /\ st.segments[1].Type = SegmentFile
          /\ parsed = ParseErr("unexpectedClose", st.pos + NextClose(templ, st))

\* a closing marker ahead of an opening prefix
C19_WitnessBeforeOpen ==
    /\ Parsed
    /\ \E st \in LoopHeads(templ, ScanInit) :
          /\ ~st.inFileBlock
          /\ NextClose(templ, st) # -1
          /\ NextOpen(templ, st) > NextClose(templ, st)
          /\ parsed = ParseErr("unexpectedClose", st.pos + NextClose(templ, st))

\* the loop heads at which the scanner, outside any block, turns to an
\* opening prefix whose name is ended by a '#'
AtOpening(t) ==
    {st \in LoopHeads(t, ScanInit) :
        /\ ~st.inFileBlock
        /\ NextOpen(t, st) # -1
        /\ (NextClose(t, st) = -1 \/ NextOpen(t, st) < NextClose(t, st))
        /\ Contains(SliceFrom(t, st.pos + NextOpen(t, st) + Len(fileOpenPrefix)),
                    fileOpenSuffix)}

\* the offset of that prefix and the bytes between it and the next '#'
OpenStartAt(t, st) == st.pos + NextOpen(t, st)
NameAt(t, st) ==
    LET from == OpenStartAt(t, st) + Len(fileOpenPrefix)
    IN  Slice(t, from, from + Index(SliceFrom(t, from), fileOpenSuffix))

\* C20: an opening marker met by the scanner whose name is empty or only
\* whitespace makes ParseSegments fail with the empty-filename error at the
\* offset of the marker; a name with some non-whitespace byte passes that
\* test and is kept as written, surrounding whitespace included, in the file
\* segment opened and in the result of a successful parse.
C20_EmptyFilename ==
    Parsed =>
        \A st \in AtOpening(templ) :
            LET name == NameAt(templ, st)
                next == ScanStep(templ, st)
            IN  IF \A i \in 1..Len(name) : IsSpaceByte(name[i])
                THEN parsed = ParseErr("emptyFilename", OpenStartAt(templ, st))
                ELSE /\ parsed # ParseErr("emptyFilename", OpenStartAt(templ, st))
                     /\ next.inFileBlock
                     /\ next.segments[Len(next.segments)] = FileSegment(name, <<>>)
                     /\ parsed.err = "none" =>
                            \E i \in 1..Len(parsed.segments) :
                                /\ parsed.segments[i].Type = SegmentFile
                                /\ parsed.segments[i].Filename = name

\* a marker whose name is a single space, after leading text
C20_Witness ==
    /\ Parsed
    /\ \E st \in AtOpening(templ) :
          /\ NameAt(templ, st) = <<" ">>
          /\ OpenStartAt(templ, st) > 0
          /\ parsed = ParseErr("emptyFilename", OpenStartAt(templ, st))

\* a marker with an empty name
C20_WitnessEmpty ==
    /\ Parsed
    /\ \E st \in AtOpening(templ) :
          /\ NameAt(templ, st) = <<>>
          /\ parsed = ParseErr("emptyFilename", OpenStartAt(templ, st))

\* a successful parse that kept a name with a leading space
C20_WitnessKept ==
    /\ Parsed
    /\ parsed.err = "none"
    /\ \E i \in 1..Len(parsed.segments) :
          /\ parsed.segments[i].Type = SegmentFile
          /\ parsed.segments[i].Filename = <<" ", "a">>

\* C21: whenever ParseSegments returns an error the segment list it returns
\* is nil, whatever segments the scan had appended before the error; and a
\* nil list is returned only with an error.
C21_ErrorReturnsNil ==
    Parsed =>
        /\ parsed.err # "none" => (parsed.isNil /\ parsed.segments = <<>>)
        /\ parsed.err = "none" => (~parsed.isNil /\ Len(parsed.segments) >= 1)

\* an error returned after the scan had appended a stdout and a file segment
C21_Witness ==
    /\ Parsed
    /\ parsed.err # "none"
    /\ parsed.isNil
    /\ LET st == ScanLoop(templ, ScanInit)
       IN  /\ st.status = "error"
           /\ Len(st.segments) >= 2
           /\ st.segments[1].Type = SegmentStdout
           /\ st.segments[2].Type = SegmentFile

-----------------------------------------------------------------------------
(* The two sinks *)

IsMemory == configured \in {"memory: not called", "memory: nil"}

\* the name has a ".." element
HasDotDotElement(filename) ==
    \E k \in 1..Len(SplitPath(filename)) : SplitPath(filename)[k] = DotDot

\* C22: both sinks reject a destination name that has a `..` element, with
\* or without a base directory, and no key stored by the MemoryFileWriter
\* lies outside its base directory.
C22_TraversalRejectedByAllSinks ==
    /\ \A p \in Goroutines : \A k \in Returned(p) :
          HasDotDotElement(calls[p][k].filename) => proc[p].rets[k] # "nil"
    /\ IsMemory =>
          /\ \A k \in 1..Len(writeCalls) :
                HasDotDotElement(writeCalls[k].filename) => writeCalls[k].ret # "none"
          /\ configured = "memory: nil" =>
                \A key \in DOMAIN files :
                    key = baseDir \/ baseDir = Dot \/ IsWithin(baseDir, key)

\* C23: a WriteFile call with the empty name returns the empty-name error
\* and changes nothing: the MemoryFileWriter keeps its map and base
\* directory, the DefaultFileWriter creates no directory, no temporary file
\* and no final file.
C23_EmptyNameRejected ==
    [][ /\ (/\ IsMemory
            /\ Len(writeCalls') = Len(writeCalls) + 1
            /\ writeCalls'[Len(writeCalls')].filename = <<>>) =>
               /\ writeCalls'[Len(writeCalls')].ret = "filename cannot be empty"
               /\ files' = files
               /\ baseDir' = baseDir
        /\ \A p \in Goroutines :
              (/\ proc[p].pc = "idle"
               /\ proc'[p].cur = proc[p].cur + 1
               /\ calls[p][proc'[p].cur].filename = <<>>) =>
                  /\ proc'[p].pc = "idle"
                  /\ proc'[p].rets = Append(proc[p].rets, "filename cannot be empty")
                  /\ fs' = fs
                  /\ inodes' = inodes
                  /\ baseDir' = baseDir
      ]_vars

\* a MemoryFileWriter with a base directory that stored one entry and then
\* refused the empty name
C23_Witness ==
    /\ configured = "memory: nil"
    /\ baseDir # Dot
    /\ Len(writeCalls) = 2
    /\ writeCalls[2].filename = <<>>
    /\ writeCalls[1].ret = "none"
    /\ writeCalls[2].ret = "filename cannot be empty"
    /\ Cardinality(DOMAIN files) = 1

\* a DefaultFileWriter with a base directory that refused the empty name
C23_WitnessDefault ==
    /\ configured = "nil"
    /\ baseDir # <<>>
    /\ \E p \in Goroutines : proc[p].rets = <<"filename cannot be empty">>
    /\ FilesOf(fs) = {}

-----------------------------------------------------------------------------
(* SetBaseDir *)

\* a file stands at path or above it
Blocked(tree, path) == \E d \in Ancestors(path) : IsFile(tree, d)

\* C24: DefaultFileWriter.SetBaseDir(dir) with a non-empty dir whose cleaned
\* path is absent creates it, with the directories above it, records it as
\* the base directory and returns nil, and nothing that existed is changed;
\* when that path (or one above it) is a file the call returns an error and
\* leaves the base directory and the tree as they were.
C24_SetBaseDir ==
    [][ (proc' = proc /\ dirArg' # <<>>) =>
            IF Blocked(fs, Clean(dirArg'))
            THEN /\ configured' # "nil"
                 /\ baseDir' = baseDir
                 /\ fs' = fs
            ELSE /\ configured' = "nil"
                 /\ baseDir' = Clean(dirArg')
                 /\ \A d \in Ancestors(Clean(dirArg')) : IsDir(fs', d)
                 /\ \A x \in DOMAIN fs : x \in DOMAIN fs' /\ fs'[x] = fs[x]
                 /\ DOMAIN fs' \subseteq DOMAIN fs \cup Ancestors(Clean(dirArg'))
      ]_vars

\* a writer with base directory o wrote the file o/o and was then asked to
\* take o/o as base directory: the call failed and o is still the base
C24_Witness ==
    /\ baseDir = <<"o">>
    /\ IsFile(fs, <<"o", "/", "o">>)
    /\ Clean(dirArg) = <<"o", "/", "o">>
    /\ configured = "failed to create output directory"

\* a second call created a directory and the one above it
C24_WitnessCreated ==
    /\ baseDir = <<"o", "/", "o">>
    /\ configured = "nil"
    /\ IsDir(fs, <<"o">>)
    /\ IsDir(fs, <<"o", "/", "o">>)
    /\ IsFile(fs, <<"f">>)

-----------------------------------------------------------------------------
(* Repeated parsing *)

C25_WitnessError == parsedAgain # NotParsed /\ parsedAgain.err = "nested"

-----------------------------------------------------------------------------
(* unique *)

\* every element of the slice is nil or of a comparable type
AllComparable(input) ==
    \A i \in 1..Len(input.elems) :
        input.elems[i] = NilElem \/ Comparable(input.elems[i].type)

\* the positions of x no earlier position holds an equal element for
FirstPositions(x) ==
    {i \in 1..Len(x) : \A j \in 1..(i - 1) : ~GoEqual(x[j], x[i])}

RECURSIVE Pick(_, _, _)
Pick(x, P, i) ==
    IF i > Len(x) THEN <<>>
    ELSE (IF i \in P THEN <<x[i]>> ELSE <<>>) \o Pick(x, P, i + 1)

FirstOccurrences(x) == Pick(x, FirstPositions(x), 1)

\* C26: on a slice whose elements are all nil or of a comparable type,
\* unique returns without error exactly the elements at their first
\* occurrence, in input order: no two elements of the result are equal,
\* every input element is in the result, and unique applied to the result
\* returns the same result.
C26_UniqueFirstOccurrences ==
    (uniqueOut # <<>> /\ AllComparable(uniqueIn)) =>
        LET r == uniqueOut[1]
        IN  /\ r.err = "none"
            /\ r.elems = FirstOccurrences(uniqueIn.elems)
            /\ \A i, j \in 1..Len(r.elems) : i < j => ~GoEqual(r.elems[i], r.elems[j])
            /\ \A i \in 1..Len(uniqueIn.elems) :
                   \E k \in 1..Len(r.elems) : r.elems[k] = uniqueIn.elems[i]
            /\ Len(uniqueOut) = 2 => uniqueOut[2] = uniqueOut[1]

\* unique was called on a slice that repeats its first element after another
\* one and holds an int and a string of the same text, then on its result
C26_Witness ==
    /\ Len(uniqueOut) = 2
    /\ Len(uniqueIn.elems) = 4
    /\ uniqueIn.elems[1] = Elem("int", "1")
    /\ uniqueIn.elems[2] = Elem("string", "1")
    /\ uniqueIn.elems[3] = Elem("int", "1")
    /\ uniqueIn.elems[4] = NilElem
    /\ Len(uniqueOut[1].elems) = 3

\* the first element of the slice that is of a non-comparable type, 0 if none
FirstNonComparable(input) ==
    LET bad == {i \in 1..Len(input.elems) :
                    input.elems[i] # NilElem /\ ~Comparable(input.elems[i].type)}
    IN  IF bad = {} THEN 0
        ELSE CHOOSE i \in bad : \A j \in bad : i <= j

\* C27: unique of a nil slice returns a nil slice and no error; unique of an
\* empty non-nil slice returns an empty non-nil slice and no error; unique of
\* a slice holding an element of a non-comparable type returns an error that
\* names this type and a nil slice, comparable elements before it or not.
C27_UniqueEdges ==
    uniqueOut # <<>> =>
        LET r == uniqueOut[1]
            b == FirstNonComparable(uniqueIn)
        IN  /\ uniqueIn.isNil => r = UniqueNil
            /\ uniqueIn = SliceOf(<<>>) => r = UniqueOk(<<>>)
            /\ b # 0 => r = UniqueErr(uniqueIn.elems[b].type)

\* unique was called on a slice with comparable elements before a
\* non-comparable one
C27_Witness ==
    /\ uniqueOut # <<>>
    /\ Len(uniqueIn.elems) = 3
    /\ FirstNonComparable(uniqueIn) = 3
    /\ uniqueOut[1].errType = "[]int"

\* unique was called on the nil slice
C27_WitnessNil ==
    /\ uniqueOut # <<>>
    /\ uniqueIn.isNil
    /\ uniqueOut[1].isNil

\* unique was called on the empty slice that is not nil
C27_WitnessEmpty ==
    /\ uniqueOut # <<>>
    /\ uniqueIn = SliceOf(<<>>)
    /\ ~uniqueOut[1].isNil

-----------------------------------------------------------------------------
(* The registered functions *)

Helpers == {"env", "envOrDefault", "unique"}

\* the template whose parsing made the call return, <<"{", "{">> standing
\* for none
FailedToParse ==
    IF result.err = "failed to parse template" THEN templ
    ELSE IF result.wrapped # "parse" THEN leftDelim
    ELSE IF result.err = "failed to render stdout segment"
         THEN segments[result.seg + 1].Content
    ELSE IF result.err = "failed to render filename template for segment"
         THEN segments[result.seg + 1].Filename
    ELSE IF result.err = "failed to render file content for"
         THEN segments[segIdx + 1].Content
    ELSE leftDelim

C28_WitnessExecute ==
    /\ mode = "Execute"
    /\ result = ReturnNil
    /\ templ = helperCalls
    /\ stdout = <<"a", "[", "]">>

-----------------------------------------------------------------------------
(* A stdout segment that fails *)

\* C29: when ExecuteWithFiles returns the error of a stdout segment, whether
\* its template failed to parse or to execute, the output writer has
\* received the renderings of the stdout segments before it and no byte of
\* the failing segment.
C29_NoByteOfFailedSegment ==
    (LoopReturned /\ result.err = "failed to render stdout segment") =>
        stdout = Renderings(OfType(SubSeq(segments, 1, result.seg), SegmentStdout), data)

\* the part of the claim the code keeps: a stdout segment whose template
\* does not parse adds no byte to the output
C29_ParseFailureWritesNothing ==
    (LoopReturned /\ result.err = "failed to render stdout segment"
                  /\ result.wrapped = "parse") =>
        stdout = Renderings(OfType(SubSeq(segments, 1, result.seg), SegmentStdout), data)

\* a stdout segment after a file block failed to parse
C29_WitnessParse ==
    /\ LoopReturned
    /\ result.err = "failed to render stdout segment"
    /\ result.wrapped = "parse"
    /\ result.seg = 1
    /\ Len(writeCalls) = 1

-----------------------------------------------------------------------------
(* What a successful WriteFile leaves alone *)

\* goroutine p returns nil from WriteFile on this step
ReturnsNil(p) ==
    /\ proc[p].pc = "rename"
    /\ proc'[p].pc = "idle"
    /\ proc'[p].rets[Len(proc'[p].rets)] = "nil"

\* C30: a successful DefaultFileWriter.WriteFile changes only the file at the
\* path its name resolves to: on the step on which the call returns nil,
\* every other destination written by an earlier successful call, the one at
\* the resolved path followed by .tmp included, still exists with the
\* content it had.
C30_OnlyDestinationChanges ==
    [][\A p \in Goroutines :
          ReturnsNil(p) =>
              \A k \in Successful(p) :
                  PathOfCall(p, k) # proc[p].cleanFilename =>
                      ReadFile(fs', inodes', PathOfCall(p, k))
                          = ReadFile(fs, inodes, PathOfCall(p, k))]_vars

\* the part of the claim the code keeps: a destination that is not the
\* resolved path followed by .tmp is left as it was by the returning step
C30_OthersUnchanged ==
    [][\A p \in Goroutines :
          ReturnsNil(p) =>
              \A k \in Successful(p) :
                  (/\ PathOfCall(p, k) # proc[p].cleanFilename
                   /\ PathOfCall(p, k) # TmpFile(proc[p].cleanFilename)) =>
                      ReadFile(fs', inodes', PathOfCall(p, k))
                          = ReadFile(fs, inodes, PathOfCall(p, k))]_vars

\* a second successful call to another path has returned and the file of the
\* first call is in place
C30_WitnessOther ==
    \E p \in Goroutines :
        /\ proc[p].pc = "idle"
        /\ proc[p].rets = <<"nil", "nil">>
        /\ PathOfCall(p, 1) # PathOfCall(p, 2)
        /\ ReadFile(fs, inodes, PathOfCall(p, 1))
              = [exists |-> TRUE, content |-> calls[p][1].content]

-----------------------------------------------------------------------------
(* Edge trimming *)

\* the segments the scan built, before the edges are trimmed
Scanned(t) == ScanLoop(t, ScanInit).segments

\* a stdout segment whose content is empty or whitespace only
Removable(seg) == seg.Type = SegmentStdout /\ IsBlank(seg.Content)

\* how many segments at the front, and at the back, are removable
Leading(segs) ==
    CHOOSE k \in 0..Len(segs) :
        /\ \A i \in 1..k : Removable(segs[i])
        /\ k < Len(segs) => ~Removable(segs[k + 1])
Trailing(segs) ==
    CHOOSE k \in 0..Len(segs) :
        /\ \A i \in 1..k : Removable(segs[Len(segs) + 1 - i])
        /\ k < Len(segs) => ~Removable(segs[Len(segs) - k])

\* C31: after a successful scan that built at least one segment, the result
\* is the scanned sequence without the stdout segments at its front and at
\* its back whose content is empty or whitespace only: file segments are all
\* kept, a whitespace-only stdout segment between two file segments is kept
\* as it is, and when every segment is removed the result is one empty
\* stdout segment.
C31_EdgeTrimming ==
    (Parsed /\ parsed.err = "none" /\ Scanned(templ) # <<>>) =>
        LET segs == Scanned(templ)
        IN  /\ Leading(segs) = Len(segs) => parsed.segments = <<StdoutSegment(<<>>)>>
            /\ Leading(segs) < Len(segs) =>
                  parsed.segments = SubSeq(segs, Leading(segs) + 1, Len(segs) - Trailing(segs))
            /\ OfType(parsed.segments, SegmentFile) = OfType(segs, SegmentFile)

\* a whitespace-only stdout segment at the front, one between two file
\* segments and one at the back: only the one in between is in the result
C31_Witness ==
    /\ Parsed
    /\ parsed.err = "none"
    /\ Len(Scanned(templ)) = 5
    /\ Removable(Scanned(templ)[1])
    /\ Scanned(templ)[1].Content # <<>>
    /\ Removable(Scanned(templ)[5])
    /\ Len(parsed.segments) = 3
    /\ parsed.segments[1].Type = SegmentFile
    /\ parsed.segments[2] = StdoutSegment(<<" ">>)
    /\ parsed.segments[3].Type = SegmentFile

\* every scanned segment was removed
C31_WitnessAllRemoved ==
    /\ Parsed
    /\ Scanned(templ) # <<>>
    /\ Leading(Scanned(templ)) = Len(Scanned(templ))
    /\ parsed = ParseOk(<<StdoutSegment(<<>>)>>)

-----------------------------------------------------------------------------
(* An opening prefix inside a destination name *)

\* the opening marker the scanner turns to at st is written with a name that
\* holds an opening prefix: the prefix follows a first part of the name that
\* is not blank and a '#' to end the name comes after it, as in #FILE:a#FILE:b#
NameHoldsPrefix(t, st) ==
    LET inner == OpenStartAt(t, st) + Len(fileOpenPrefix) + Len(NameAt(t, st))
    IN  /\ ~IsBlank(NameAt(t, st))
        /\ MatchAt(t, inner, fileOpenPrefix)
        /\ Contains(SliceFrom(t, inner + Len(fileOpenPrefix)), fileOpenSuffix)

\* C32: an opening marker whose destination name itself contains the prefix
\* #FILE: makes ParseSegments fail with the nested-directive error at the
\* offset of the opening marker.
C32_PrefixInName ==
    Parsed =>
        \A st \in AtOpening(templ) :
            NameHoldsPrefix(templ, st) => parsed = ParseErr("nested", OpenStartAt(templ, st))

-----------------------------------------------------------------------------
(* The malformed opening marker *)

\* the loop heads at which the scanner, outside any block, turns to an
\* opening prefix
TurnsToOpening(t) ==
    {st \in LoopHeads(t, ScanInit) :
        /\ ~st.inFileBlock
        /\ NextOpen(t, st) # -1
        /\ (NextClose(t, st) = -1 \/ NextOpen(t, st) < NextClose(t, st))}

\* the bytes after the opening prefix the scanner turns to at st
AfterPrefix(t, st) == SliceFrom(t, OpenStartAt(t, st) + Len(fileOpenPrefix))

\* C33: when the scanner turns to an opening prefix and no '#' occurs
\* anywhere after the prefix, ParseSegments fails with the malformed-marker
\* error at the offset of the prefix; when a '#' does occur, the first one,
\* be it the first byte of a closing marker, ends the name: the error is not
\* the malformed-marker error at this prefix, and the name is tested, and
\* the block opened, with the bytes up to that '#'.
C33_MalformedOpening ==
    Parsed =>
        \A st \in TurnsToOpening(templ) :
            LET next == ScanStep(templ, st)
                hash == Index(AfterPrefix(templ, st), <<"#">>)
                name == Slice(AfterPrefix(templ, st), 0, hash)
            IN  IF hash = -1
                THEN parsed = ParseErr("malformed", OpenStartAt(templ, st))
                ELSE /\ parsed # ParseErr("malformed", OpenStartAt(templ, st))
                     /\ IF IsBlank(name)
                        THEN parsed = ParseErr("emptyFilename", OpenStartAt(templ, st))
                        ELSE /\ next.inFileBlock
                             /\ next.segments[Len(next.segments)] = FileSegment(name, <<>>)
                             /\ next.pos = OpenStartAt(templ, st) + Len(fileOpenPrefix)
                                               + hash + 1

\* an opening prefix after leading text, followed by a name and no '#'
C33_Witness ==
    /\ Parsed
    /\ \E st \in TurnsToOpening(templ) :
          /\ OpenStartAt(templ, st) > 0
          /\ AfterPrefix(templ, st) # <<>>
          /\ ~Contains(AfterPrefix(templ, st), <<"#">>)
          /\ parsed = ParseErr("malformed", OpenStartAt(templ, st))

\* a name ended by the first byte of a closing marker
C33_WitnessClose ==
    /\ Parsed
    /\ \E st \in TurnsToOpening(templ) :
          /\ MatchAt(AfterPrefix(templ, st), 1, fileClose)
          /\ ~IsBlank(Slice(AfterPrefix(templ, st), 0, 1))
          /\ ScanStep(templ, st).inFileBlock
          /\ parsed.err = "unclosed"

-----------------------------------------------------------------------------
(* The temporary file after WriteFile has returned *)

\* the last call of goroutine p has returned e
JustReturned(p, e) ==
    /\ proc[p].pc = "idle"
    /\ proc[p].cur > 0
    /\ proc[p].rets[proc[p].cur] = e

\* C34: after a WriteFile that returned nil nothing is left at the final
\* path followed by .tmp; after a WriteFile whose rename failed the
\* temporary file is removed as well and the final path reads as it did
\* before the call.
C34_TmpCleanedUp ==
    \A p \in Goroutines :
        /\ JustReturned(p, "nil") => TmpFile(proc[p].cleanFilename) \notin DOMAIN fs
        /\ JustReturned(p, "failed to rename temp file") =>
              /\ TmpFile(proc[p].cleanFilename) \notin DOMAIN fs
              /\ ReadFile(fs, inodes, proc[p].cleanFilename) = proc[p].before

\* the rename of a second write to a name failed: the temporary file is gone
\* and the final path reads the first write
C34_Witness ==
    /\ Len(calls[1]) = 2
    /\ calls[1][1].filename = calls[1][2].filename
    /\ calls[1][1].content # calls[1][2].content
    /\ proc[1].rets = <<"nil", "failed to rename temp file">>
    /\ proc[1].pc = "idle"
    /\ ReadFile(fs, inodes, proc[1].cleanFilename)
            = [exists |-> TRUE, content |-> calls[1][1].content]

\* a write returned nil
C34_WitnessSuccess ==
    /\ JustReturned(1, "nil")
    /\ ReadFile(fs, inodes, proc[1].cleanFilename)
            = [exists |-> TRUE, content |-> CurrentCall(1).content]

\* C40: after the first WriteFile of a writer has returned an error, be it
\* for a rejected name, a directory that cannot be created, a failure while
\* writing the temporary file or a failed rename, no temporary file is left
\* at the final path followed by .tmp.
C40_NoTmpAfterError ==
    \A p \in Goroutines :
        (proc[p].cur = 1 /\ proc[p].pc = "idle" /\ proc[p].rets[1] # "nil") =>
            TmpFile(proc[p].cleanFilename) \notin DOMAIN fs

\* the part of the claim the code keeps: no temporary file is left by a call
\* that failed before opening it or whose rename failed
C40_NoTmpUnlessWriteFailed ==
    \A p \in Goroutines :
        (proc[p].cur = 1 /\ proc[p].pc = "idle"
                /\ proc[p].rets[1] \notin {"nil", "failed to write file"}) =>
            TmpFile(proc[p].cleanFilename) \notin DOMAIN fs

-----------------------------------------------------------------------------
(* What a render failure says *)

RenderFailures ==
    { "failed to render stdout segment",
      "failed to render filename template for segment",
      "failed to render file content for" }

\* C35: every render failure returned by ExecuteWithFiles carries the index
\* of the segment it arose in, whether it arose in the content of a stdout
\* segment, in a filename template or in the content of a file segment.
C35_RenderFailureNamesSegment ==
    (LoopReturned /\ result.err \in RenderFailures) => result.seg = segIdx

\* the part of the claim the code keeps: failures of stdout segments and of
\* filename templates carry the index of the segment
C35_IndexUnlessFileContent ==
    (LoopReturned /\ result.err \in RenderFailures
                  /\ result.err # "failed to render file content for") =>
        /\ result.seg = segIdx
        /\ segments[segIdx + 1].Type =
              IF result.err = "failed to render stdout segment"
              THEN SegmentStdout ELSE SegmentFile

-----------------------------------------------------------------------------
(* The two sinks side by side *)

\* the base directory a DefaultFileWriter holds after the configuration the
\* MemoryFileWriter was given: none, or a successful SetBaseDir(dirArg)
DefaultBase ==
    IF configured = "memory: not called" \/ dirArg = <<>> THEN <<>> ELSE Clean(dirArg)

\* the key the MemoryFileWriter stores the name of its i-th call under
KeyOf(i) == MemoryFullPath(baseDir, writeCalls[i].filename)

\* the WriteFile calls accepted by the MemoryFileWriter and stored under its
\* present base directory whose name a DefaultFileWriter configured alike
\* resolves without error
AcceptedByBoth ==
    {i \in 1..Len(writeCalls) :
        /\ IsMemory
        /\ writeCalls[i].ret = "none"
        /\ KeyOf(i) \in DOMAIN files
        /\ ResolvePath(DefaultBase, writeCalls[i].filename).err = "nil"}

\* C36: whatever the base directory configuration (none, the empty string,
\* a directory), a write both sinks accept is stored by the MemoryFileWriter
\* under the path the DefaultFileWriter writes to.
C36_SameKeyAsPath ==
    \A i \in AcceptedByBoth :
        KeyOf(i) = ResolvePath(DefaultBase, writeCalls[i].filename).cleanFilename

\* the part of the claim the code keeps: after SetBaseDir with a directory
\* the key is the path; after SetBaseDir("") it is the path of every name
\* that is not rooted; without SetBaseDir it is the name as given, which is
\* the path exactly when the name is already normalized
C36_SameKeyUnderDirectory ==
    \A i \in AcceptedByBoth :
        LET name == writeCalls[i].filename
            path == ResolvePath(DefaultBase, name).cleanFilename
        IN  /\ (configured = "memory: nil" /\ dirArg # <<>>) => KeyOf(i) = path
            /\ (configured = "memory: nil" /\ dirArg = <<>> /\ ~IsRooted(name)) =>
                  KeyOf(i) = path
            /\ configured = "memory: not called" =>
                  /\ KeyOf(i) = name
                  /\ (KeyOf(i) = path) = (name = Clean(name))

\* after SetBaseDir("o") a name that is not normalized was stored under the
\* normalized join
C36_WitnessDirectory ==
    /\ configured = "memory: nil"
    /\ baseDir = <<"o">>
    /\ \E i \in AcceptedByBoth :
          /\ writeCalls[i].filename = <<".", "/", "a">>
          /\ KeyOf(i) = <<"o", "/", "a">>

-----------------------------------------------------------------------------
(* The command line *)

\* runE got one or two arguments and has chosen its input, or failed to
CliChose ==
    /\ cli.pc # "input"
    /\ Len(cli.in.args) \in {1, 2}

HasRead(what) == \E k \in 1..Len(cli.reads) : cli.reads[k] = what

\* the input sources as the run finds them
FlagGiven   == cli.in.inputContent # ""
DashGiven   == Len(cli.in.args) = 2 /\ cli.in.args[2] = "-"
StdinPiped  == cli.in.stdin.kind = "pipe"
FileGiven   == Len(cli.in.args) = 2 /\ cli.in.args[2] # "-"

C37_WitnessNone ==
    /\ CliChose
    /\ cli.ret = "no data provided"

\* the flag was taken although standard input is piped and "-" is given
C37_WitnessFlag ==
    /\ CliChose
    /\ FlagGiven /\ DashGiven /\ StdinPiped
    /\ cli.ret = "nil"

-----------------------------------------------------------------------------
(* Termination of the scan *)

\* C38: every iteration of the loop of ParseSegments either leaves the loop
\* (by return or break) or ends with the scan position strictly greater
\* than it began with, and never beyond the end of the template; so no two
\* iterations begin at the same position and there are at most
\* len(template) of them.
C38_ScanAdvances ==
    Parsed =>
        /\ \A st \in LoopHeads(templ, ScanInit) :
              LET next == ScanStep(templ, st)
              IN  \/ next.status # "scan"
                  \/ /\ next.pos > st.pos
                     /\ next.pos <= Len(templ)
        /\ \A s1, s2 \in LoopHeads(templ, ScanInit) : s1.pos = s2.pos => s1 = s2
        /\ Cardinality(LoopHeads(templ, ScanInit)) <= Len(templ)

\* a scan of four iterations or more that ends without error, one of them
\* closing a block with empty content
C38_Witness ==
    /\ Parsed
    /\ parsed.err = "none"
    /\ Cardinality(LoopHeads(templ, ScanInit)) >= 4
    /\ \E st \in LoopHeads(templ, ScanInit) :
          /\ st.inFileBlock
          /\ MatchAt(templ, st.pos, fileClose)
          /\ ScanStep(templ, st).pos = st.pos + Len(fileClose)

\* an iteration that returns an error, after one that advanced
C38_WitnessReturn ==
    /\ Parsed
    /\ parsed.err # "none"
    /\ \E st \in LoopHeads(templ, ScanInit) :
          /\ st.pos > 0
          /\ ScanStep(templ, st).status = "error"

-----------------------------------------------------------------------------
(* No marker survives in a parsed segment *)

HoldsMarker(bytes) == Contains(bytes, fileOpenPrefix) \/ Contains(bytes, fileClose)

\* C39: when ParseSegments returns without error, no segment's content and
\* no file segment's name holds an occurrence of #FILE: or of #FILE#, and
\* no file segment's name holds the byte '#'.
C39_NoMarkerInSegments ==
    (Parsed /\ parsed.err = "none") =>
        \A i \in 1..Len(parsed.segments) :
            LET seg == parsed.segments[i]
            IN  /\ ~HoldsMarker(seg.Content)
                /\ seg.Type = SegmentFile =>
                      /\ ~HoldsMarker(seg.Filename)
                      /\ ~Contains(seg.Filename, <<"#">>)

\* a successful parse with a file segment and a stdout segment whose
\* content holds '#' followed by the letters FILE
C39_Witness ==
    /\ Parsed
    /\ parsed.err = "none"
    /\ \E i, j \in 1..Len(parsed.segments) :
          /\ parsed.segments[i].Type = SegmentFile
          /\ parsed.segments[j].Type # SegmentFile
          /\ Contains(parsed.segments[j].Content, <<"#", "F", "I", "L", "E">>)

\* a successful parse with a file segment whose content holds '#'
C39_WitnessContent ==
    /\ Parsed
    /\ parsed.err = "none"
    /\ \E i \in 1..Len(parsed.segments) :
          /\ parsed.segments[i].Type = SegmentFile
          /\ Contains(parsed.segments[i].Content, <<"#">>)

====
